---- MODULE Spec2Model ----
(***************************************************************************)
(* Model of the context resolver of semrush/agent-browse.                  *)
(*                                                                         *)
(* Two variants of class ContextResolver exist in the repository:          *)
(*   "single"  src/unnamed/part_000        (no domain matching)            *)
(*   "multi"   src/unnamed/part_001:1-253  (instruction sets per domain)   *)
(* The instruction store (the files below <pluginRoot>/instructions) is    *)
(* environment state: it is read by the resolver and changed only by the   *)
(* StoreChange action, which stands for an author editing the files.       *)
(*                                                                         *)
(* Strings are TLA+ strings and are taken apart character by character,    *)
(* so URL parsing, path splitting, trimming, domain matching and the       *)
(* dynamic-segment regular expressions are computed as the code does.      *)
(* A value of type `string | null` is a tuple: <<>> is null, <<s>> is s.   *)
(***************************************************************************)
EXTENDS Integers, Sequences, FiniteSets, TLC

VARIABLES variant, store, cache, configCache, last, cli, classified, pending

vars == <<variant, store, cache, configCache, last, cli, classified, pending>>

-----------------------------------------------------------------------------
(* string | null *)

None == <<>>

Some(s) == <<s>>

-----------------------------------------------------------------------------
(* JavaScript string primitives *)

CharAt(s, i) == SubSeq(s, i, i)

\* String.prototype.startsWith
StartsWith(s, p) == Len(s) >= Len(p) /\ SubSeq(s, 1, Len(p)) = p

\* String.prototype.endsWith
EndsWith(s, p) == Len(s) >= Len(p) /\ SubSeq(s, Len(s) - Len(p) + 1, Len(s)) = p

\* String.prototype.slice(n) for 0 <= n
Slice(s, n) == SubSeq(s, n + 1, Len(s))

\* every character of s is in the set cs
RECURSIVE AllIn(_, _)
AllIn(s, cs) ==
    IF s = "" THEN TRUE
    ELSE CharAt(s, 1) \in cs /\ AllIn(Slice(s, 1), cs)

\* index (1-based) of the first "/" in s, 0 when there is none
RECURSIVE IndexOfSlash(_, _)
IndexOfSlash(s, i) ==
    IF i > Len(s) THEN 0
    ELSE IF CharAt(s, i) = "/" THEN i
    ELSE IndexOfSlash(s, i + 1)

Whitespace == {" ", "\n", "\t", "\r"}

RECURSIVE TrimStart(_)
TrimStart(s) ==
    IF s # "" /\ CharAt(s, 1) \in Whitespace THEN TrimStart(Slice(s, 1)) ELSE s

RECURSIVE TrimEnd(_)
TrimEnd(s) ==
    IF s # "" /\ CharAt(s, Len(s)) \in Whitespace
    THEN TrimEnd(SubSeq(s, 1, Len(s) - 1))
    ELSE s

\* String.prototype.trim
Trim(s) == TrimEnd(TrimStart(s))

\* s.split('/').filter(Boolean): the non-empty pieces between slashes.
\* cur is the piece being read, out the pieces finished so far.
RECURSIVE SplitFrom(_, _, _, _)
SplitFrom(s, i, cur, out) ==
    IF i > Len(s) THEN (IF cur = "" THEN out ELSE Append(out, cur))
    ELSE IF CharAt(s, i) = "/"
         THEN SplitFrom(s, i + 1, "", IF cur = "" THEN out ELSE Append(out, cur))
         ELSE SplitFrom(s, i + 1, cur \o CharAt(s, i), out)

\* s.split('/') without the filter: the empty pieces are kept
RECURSIVE SplitAllFrom(_, _, _, _)
SplitAllFrom(s, i, cur, out) ==
    IF i > Len(s) THEN Append(out, cur)
    ELSE IF CharAt(s, i) = "/"
         THEN SplitAllFrom(s, i + 1, "", Append(out, cur))
         ELSE SplitAllFrom(s, i + 1, cur \o CharAt(s, i), out)

SplitSegmentsKeepingEmpty(s) == SplitAllFrom(s, 1, "", <<>>)

SplitSegments(s) == SplitFrom(s, 1, "", <<>>)

\* index (1-based) of the last "/" in s at or before i, 0 when there is none
RECURSIVE LastIndexOfSlash(_, _)
LastIndexOfSlash(s, i) ==
    IF i < 1 THEN 0
    ELSE IF CharAt(s, i) = "/" THEN i
    ELSE LastIndexOfSlash(s, i - 1)

\* the last part of a relative path and the path before it
LastPart(a) == Slice(a, LastIndexOfSlash(a, Len(a)))

Dirname(a) ==
    IF LastIndexOfSlash(a, Len(a)) = 0 THEN ""
    ELSE SubSeq(a, 1, LastIndexOfSlash(a, Len(a)) - 1)

\* path.join(a, b) for a normalized relative path a and a single part b.
\* The result is normalized as path.join does it: "." is dropped, ".."
\* removes the part before it, and a ".." with nothing left to remove stays
\* at the front.  "" stands for the path "." (the directory joined onto).
Join(a, b) ==
    IF b = "" \/ b = "." THEN a
    ELSE IF b = ".."
         THEN IF a = "" THEN ".."
              ELSE IF LastPart(a) = ".." THEN a \o "/.."
              ELSE Dirname(a)
    ELSE IF a = "" THEN b
    ELSE a \o "/" \o b

\* path.join(a, ...parts)
RECURSIVE JoinAll(_, _)
JoinAll(a, parts) ==
    IF parts = <<>> THEN a ELSE JoinAll(Join(a, Head(parts)), Tail(parts))

\* Array.prototype.join(sep) on a sequence of strings
RECURSIVE JoinWith(_, _)
JoinWith(xs, sep) ==
    IF xs = <<>> THEN ""
    ELSE IF Len(xs) = 1 THEN xs[1]
    ELSE xs[1] \o sep \o JoinWith(Tail(xs), sep)

Separator == "\n\n---\n\n"

-----------------------------------------------------------------------------
(* new URL(url): hostname and pathname.                                    *)
(* Modelled for inputs of the form https://<host><path>, with <host>       *)
(* non-empty and lower-case and <path> free of ".", "..", "?", "#" and     *)
(* characters that URL would percent-encode, and for about:<path>, a URL   *)
(* without a host whose hostname is the empty string (about:blank is what  *)
(* page.url() gives for a blank tab); every other input is a TypeError     *)
(* (Invalid URL), as it is for a string without a scheme.                  *)

Scheme == "https://"

OpaqueScheme == "about:"

ParseURL(url) ==
    IF StartsWith(url, OpaqueScheme)
    THEN [ok |-> TRUE, hostname |-> "", pathname |-> Slice(url, Len(OpaqueScheme))]
    ELSE IF ~StartsWith(url, Scheme)
    THEN [ok |-> FALSE, hostname |-> "", pathname |-> ""]
    ELSE LET rest == Slice(url, Len(Scheme))
             k    == IndexOfSlash(rest, 1)
             host == IF k = 0 THEN rest ELSE SubSeq(rest, 1, k - 1)
             path == IF k = 0 THEN "/" ELSE Slice(rest, k - 1)
         IN  IF host = "" THEN [ok |-> FALSE, hostname |-> "", pathname |-> ""]
             ELSE [ok |-> TRUE, hostname |-> host, pathname |-> path]

\* pathname.replace(/\/$/, '') || '/'
NormalizePath(pathname) ==
    LET stripped == IF EndsWith(pathname, "/")
                    THEN SubSeq(pathname, 1, Len(pathname) - 1)
                    ELSE pathname
    IN  IF stripped = "" THEN "/" ELSE stripped

-----------------------------------------------------------------------------
(* isDynamicSegment: the four regular expressions, all with the /i flag    *)
(* where letters occur.                                                    *)

Digits == {"0", "1", "2", "3", "4", "5", "6", "7", "8", "9"}

HexDigits == Digits \cup {"a", "b", "c", "d", "e", "f", "A", "B", "C", "D", "E", "F"}

\* the four tests without the /i flag: upper-case hex digits are refused
isDynamicSegmentCaseSensitive(segment) ==
    LET LowerHex == Digits \cup {"a", "b", "c", "d", "e", "f"}
    IN  \/ Len(segment) >= 1 /\ AllIn(segment, Digits)
        \/ Len(segment) = 36 /\ AllIn(segment, LowerHex \cup {"-"})
        \/ Len(segment) >= 8 /\ AllIn(segment, LowerHex)
        \/ Len(segment) = 24 /\ AllIn(segment, LowerHex)

isDynamicSegment(segment) ==
    \/ Len(segment) >= 1 /\ AllIn(segment, Digits)
    \/ Len(segment) = 36 /\ AllIn(segment, HexDigits \cup {"-"})
    \/ Len(segment) >= 8 /\ AllIn(segment, HexDigits)
    \/ Len(segment) = 24 /\ AllIn(segment, HexDigits)

-----------------------------------------------------------------------------
(* The instruction store as the fs calls see it.  Paths are relative to    *)
(* instructionsDir; "" is instructionsDir itself.                          *)
(*   present     instructionsDir exists                                    *)
(*   listing     what readdirSync(instructionsDir) returns, in its order   *)
(*   dirs        the directories                                           *)
(*   files       the regular files and their raw text                      *)
(*   unreadable  files that exist and whose read throws                    *)

\* a path that leaves instructionsDir: it starts with ".."
IsOutside(path) == path = ".." \/ StartsWith(path, "../")

\* the directories above instructionsDir: "..", "../.." and so on
RECURSIVE IsAncestor(_)
IsAncestor(path) ==
    \/ path = ".."
    \/ StartsWith(path, "../") /\ IsAncestor(Slice(path, 3))

\* existsSync(join(instructionsDir, path)).  The directories above
\* instructionsDir exist; whatever else lies outside it is listed in dirs
\* and files under its path from instructionsDir ("../README.md").
existsSync(st, path) ==
    IF IsOutside(path)
    THEN IsAncestor(path) \/ path \in st.dirs \/ path \in DOMAIN st.files
    ELSE st.present /\ (path = "" \/ path \in st.dirs \/ path \in DOMAIN st.files)

\* readFileSync(path, 'utf-8'): the text, or a throw for a directory or an
\* unreadable file
ReadThrows(st, path) == path \notin DOMAIN st.files \/ path \in st.unreadable

ProbeExists(path) == [call |-> "existsSync", path |-> path]

ProbeRead(path) == [call |-> "readFileSync", path |-> path]

ProbeReaddir(path) == [call |-> "readdirSync", path |-> path]

\* a loadFile whose read never fails
loadFileAlwaysReadable(st, relativePath) ==
    IF existsSync(st, relativePath)
    THEN [val |-> IF relativePath \notin DOMAIN st.files
                  THEN None
                  ELSE Some(Trim(st.files[relativePath])),
          io  |-> <<ProbeExists(relativePath), ProbeRead(relativePath)>>]
    ELSE [val |-> None, io |-> <<ProbeExists(relativePath)>>]

\* loadFile(relativePath): val is the string | null returned, io the fs
\* calls made
loadFile(st, relativePath) ==
    IF existsSync(st, relativePath)
    THEN [val |-> IF ReadThrows(st, relativePath)
                  THEN None
                  ELSE Some(Trim(st.files[relativePath])),
          io  |-> <<ProbeExists(relativePath), ProbeRead(relativePath)>>]
    ELSE [val |-> None, io |-> <<ProbeExists(relativePath)>>]

\* a test against null only
TruthyNotNull(v) == v # None

\* `if (x) instructions.push(x)`: null and the empty string are both falsy
Truthy(v) == v # None /\ v[1] # ""

-----------------------------------------------------------------------------
(* The hierarchical walk of resolve.  The accumulator acc holds            *)
(*   ins  the array `instructions`; each element carries, next to its      *)
(*        text, the file it was read from and the statement that pushed it *)
(*        ("root", "base", "page", "index", "exact")                       *)
(*   io   the fs calls made so far, in order                               *)
(* The loop and step 3 are the same statements in both variants.           *)

Doc(path, cls, text) == [path |-> path, cls |-> cls, text |-> text]

Texts(ins) == [i \in 1..Len(ins) |-> ins[i].text]

\* Array.prototype.includes on the texts
Includes(ins, text) == \E i \in 1..Len(ins) : ins[i].text = text

\* const x = this.loadFile(path); if (x) instructions.push(x);
LoadAndPush(st, acc, path, cls) ==
    LET f == loadFile(st, path)
    IN  [ins |-> IF Truthy(f.val)
                 THEN Append(acc.ins, Doc(path, cls, f.val[1]))
                 ELSE acc.ins,
         io  |-> acc.io \o f.io]

\* the candidates with the literal name tried first for an id
foldersToTryLiteralFirst(segment) ==
    IF isDynamicSegment(segment) THEN <<segment, "_dynamic", "*">> ELSE <<segment>>

\* const foldersToTry = isDynamicId ? ['_dynamic', '*'] : [segment];
foldersToTry(segment) ==
    IF isDynamicSegment(segment) THEN <<"_dynamic", "*">> ELSE <<segment>>

\* for (const folder of foldersToTry) { if (existsSync(testPath)) ... break }
\* matchedFolder is string | null; io the existsSync calls made
RECURSIVE MatchFolder(_, _, _, _, _)
MatchFolder(st, currentPath, folders, k, io) ==
    IF k > Len(folders) THEN [matchedFolder |-> None, io |-> io]
    ELSE LET testPath == Join(currentPath, folders[k])
             io1      == Append(io, ProbeExists(testPath))
         IN  IF existsSync(st, testPath)
             THEN [matchedFolder |-> Some(folders[k]), io |-> io1]
             ELSE MatchFolder(st, currentPath, folders, k + 1, io1)

\* the matched-folder step without the index.md of the last segment
MatchedStepNoIndex(st, acc, newPath, isLastSegment) ==
    LoadAndPush(st, acc, Join(newPath, "_base.md"), "base")

\* the matched-folder step with index.md loaded before _base.md
MatchedStepIndexFirst(st, acc, newPath, isLastSegment) ==
    LET acc1 == IF isLastSegment
                THEN LoadAndPush(st, acc, Join(newPath, "index.md"), "index")
                ELSE acc
    IN  LoadAndPush(st, acc1, Join(newPath, "_base.md"), "base")

\* the body of the segment loop for a matched folder: _base.md, then
\* index.md when the segment is the last one
MatchedStep(st, acc, newPath, isLastSegment) ==
    LET acc1 == LoadAndPush(st, acc, Join(newPath, "_base.md"), "base")
    IN  IF isLastSegment
        THEN LoadAndPush(st, acc1, Join(newPath, "index.md"), "index")
        ELSE acc1

\* the unmatched step trying <segment>.md for any segment, last or not
UnmatchedStepAnySegment(st, acc, currentPath, segment, isLastSegment) ==
    LoadAndPush(st, acc, Join(currentPath, segment \o ".md"), "page")

\* the body of the segment loop when no folder matched: <segment>.md for
\* the last segment; the loop then breaks
UnmatchedStep(st, acc, currentPath, segment, isLastSegment) ==
    IF isLastSegment
    THEN LoadAndPush(st, acc, Join(currentPath, segment \o ".md"), "page")
    ELSE acc

\* for (let i = 0; i < segments.length; i++) { ... }   (i is 1-based here)
RECURSIVE WalkSegments(_, _, _, _, _)
WalkSegments(st, segments, i, currentPath, acc) ==
    IF i > Len(segments) THEN acc
    ELSE LET segment       == segments[i]
             isLastSegment == (i = Len(segments))
             m == MatchFolder(st, currentPath, foldersToTry(segment), 1, <<>>)
             acc0 == [acc EXCEPT !.io = acc.io \o m.io]
         IN  IF m.matchedFolder # None
             THEN LET newPath == Join(currentPath, m.matchedFolder[1])
                  IN  WalkSegments(st, segments, i + 1, newPath,
                                   MatchedStep(st, acc0, newPath, isLastSegment))
             ELSE UnmatchedStep(st, acc0, currentPath, segment, isLastSegment)

\* the exact path without the parent segments
ExactPathInBase(basePath, segments) ==
    Join(basePath, segments[Len(segments)] \o ".md")

\* 3. exact path match: <basePath>/<all segments but the last>/<last>.md,
\* pushed unless its text is already in the array
ExactPath(basePath, segments) ==
    Join(JoinAll(basePath, SubSeq(segments, 1, Len(segments) - 1)),
         segments[Len(segments)] \o ".md")

ExactStep(st, acc, basePath, segments) ==
    IF Len(segments) = 0 THEN acc
    ELSE LET path == ExactPath(basePath, segments)
             f    == loadFile(st, path)
         IN  [ins |-> IF Truthy(f.val) /\ ~Includes(acc.ins, f.val[1])
                      THEN Append(acc.ins, Doc(path, "exact", f.val[1]))
                      ELSE acc.ins,
              io  |-> acc.io \o f.io]

\* a walk that takes the root _base.md from instructionsDir itself, whichever
\* set matched
WalkSharedRoot(st, basePath, pathname) ==
    LET segments == SplitSegments(NormalizePath(pathname))
        acc1 == LoadAndPush(st, [ins |-> <<>>, io |-> <<>>], "_base.md", "root")
        acc2 == WalkSegments(st, segments, 1, basePath, acc1)
    IN  ExactStep(st, acc2, basePath, segments)

\* steps 1 to 3 of resolve below basePath ("" in the single variant)
Walk(st, basePath, pathname) ==
    LET segments == SplitSegments(NormalizePath(pathname))
        acc1 == LoadAndPush(st, [ins |-> <<>>, io |-> <<>>],
                            Join(basePath, "_base.md"), "root")
        acc2 == WalkSegments(st, segments, 1, basePath, acc1)
    IN  ExactStep(st, acc2, basePath, segments)

\* the merge without the test of instructions.length
MergeAlwaysJoin(ins) == Some(JoinWith(Texts(ins), Separator))

\* instructions.length > 0 ? instructions.join('\n\n---\n\n') : null
Merge(ins) == IF Len(ins) > 0 THEN Some(JoinWith(Texts(ins), Separator)) ELSE None

-----------------------------------------------------------------------------
(* Config loader and domain matcher (multi variant).                       *)
(*                                                                         *)
(* JSON.parse is modelled by its value on the config texts the stores      *)
(* hold; any other text is a SyntaxError.  A parsed config is              *)
(*   ok       the text parsed                                              *)
(*   truthy   config.domains is truthy                                     *)
(*   isArray  Array.isArray(config.domains)                                *)
(*   domains  the elements; an element is a string (str, s) or a value     *)
(*            of another JSON type (str = FALSE)                           *)

Str(s) == [str |-> TRUE, s |-> s]

NonStr == [str |-> FALSE, s |-> ""]

CfgBoth == "{\"domains\":[\"example.com\",\"*.example.com\"]}"

CfgWildcard == "{\"domains\":[\"*.example.com\"]}"

CfgOrg == "{\"domains\":[\"unrelated.org\"]}"

CfgNumber == "{\"domains\":[42,\"example.com\"]}"

CfgString == "{\"domains\":\"example.com\"}"

CfgEmpty == "{}"

CfgTruncated == "{\"domains\":["

\* a SyntaxError of JSON.parse, a TypeError of config.domains on null and a
\* failed read all end in the `catch` of loadConfigs: no config for the entry
Caught == [ok |-> FALSE, truthy |-> FALSE, isArray |-> FALSE, domains |-> <<>>]

Parsed(truthy, isArray, domains) ==
    [ok |-> TRUE, truthy |-> truthy, isArray |-> isArray, domains |-> domains]

JsonParse(text) ==
    CASE text = CfgBoth     -> Parsed(TRUE, TRUE, <<Str("example.com"), Str("*.example.com")>>)
      [] text = CfgWildcard -> Parsed(TRUE, TRUE, <<Str("*.example.com")>>)
      [] text = CfgOrg      -> Parsed(TRUE, TRUE, <<Str("unrelated.org")>>)
      [] text = CfgNumber   -> Parsed(TRUE, TRUE, <<NonStr, Str("example.com")>>)
      [] text = CfgString   -> Parsed(TRUE, FALSE, <<>>)
      [] text = CfgEmpty    -> Parsed(FALSE, FALSE, <<>>)
      [] OTHER              -> Caught

\* the loop over the entries ended by the first entry without a usable
\* config, as when the skip were a `break` or the error were not caught
RECURSIVE LoadEntriesStopAtInvalid(_, _, _, _)
LoadEntriesStopAtInvalid(st, k, configs, io) ==
    IF k > Len(st.listing) THEN [configs |-> configs, io |-> io]
    ELSE LET entry == st.listing[k]
             configPath == Join(entry.name, "_config.json")
         IN  IF ~entry.isDirectory THEN LoadEntriesStopAtInvalid(st, k + 1, configs, io)
             ELSE IF ~existsSync(st, configPath)
                  THEN [configs |-> configs, io |-> Append(io, ProbeExists(configPath))]
             ELSE LET io1 == io \o <<ProbeExists(configPath), ProbeRead(configPath)>>
                      config == IF ReadThrows(st, configPath)
                                THEN Caught
                                ELSE JsonParse(st.files[configPath])
                  IN  IF config.ok /\ config.truthy /\ config.isArray
                      THEN LoadEntriesStopAtInvalid(st, k + 1,
                               Append(configs, [folder |-> entry.name,
                                                domains |-> config.domains]), io1)
                      ELSE [configs |-> configs, io |-> io1]

\* the body of `for (const entry of entries)`: configs is the Map being
\* filled, as the sequence of its entries in insertion order
RECURSIVE LoadEntries(_, _, _, _)
LoadEntries(st, k, configs, io) ==
    IF k > Len(st.listing) THEN [configs |-> configs, io |-> io]
    ELSE LET entry == st.listing[k]
             configPath == Join(entry.name, "_config.json")
         IN  IF ~entry.isDirectory THEN LoadEntries(st, k + 1, configs, io)
             ELSE IF ~existsSync(st, configPath)
                  THEN LoadEntries(st, k + 1, configs, Append(io, ProbeExists(configPath)))
             ELSE LET io1 == io \o <<ProbeExists(configPath), ProbeRead(configPath)>>
                      config == IF ReadThrows(st, configPath)
                                THEN Caught
                                ELSE JsonParse(st.files[configPath])
                  IN  IF config.ok /\ config.truthy /\ config.isArray
                      THEN LoadEntries(st, k + 1,
                               Append(configs, [folder |-> entry.name,
                                                domains |-> config.domains]), io1)
                      ELSE LoadEntries(st, k + 1, configs, io1)

\* a loadConfigs that scans the store on every call
loadConfigsAlwaysScans(st, cc) ==
    IF ~existsSync(st, "") THEN [configs |-> <<>>, io |-> <<ProbeExists("")>>]
    ELSE LoadEntries(st, 1, <<>>, <<ProbeExists(""), ProbeReaddir("")>>)

\* loadConfigs(): cc is this.configCache (null, or the Map, which is truthy
\* also when empty); configs is the Map returned and left in configCache
loadConfigs(st, cc) ==
    IF cc # None THEN [configs |-> cc[1], io |-> <<>>]
    ELSE IF ~existsSync(st, "") THEN [configs |-> <<>>, io |-> <<ProbeExists("")>>]
    ELSE LoadEntries(st, 1, <<>>, <<ProbeExists(""), ProbeReaddir("")>>)

\* a wildcard match that compares the suffix without its leading dot
matchDomainNoDot(hostname, pattern) ==
    IF hostname = pattern THEN TRUE
    ELSE IF StartsWith(pattern, "*.")
         THEN EndsWith(hostname, Slice(pattern, 2))
         ELSE FALSE

\* matchDomain(hostname, pattern) on strings
matchDomain(hostname, pattern) ==
    IF hostname = pattern THEN TRUE
    ELSE IF StartsWith(pattern, "*.")
         THEN LET suffix == Slice(pattern, 1)
              IN  EndsWith(hostname, suffix) \/ hostname = Slice(pattern, 2)
         ELSE FALSE

\* matchDomain called with an element of config.domains: for an element
\* that is not a string `hostname === pattern` is false and
\* `pattern.startsWith` is not a function, a TypeError
matchDomainCall(hostname, domain) ==
    IF domain.str
    THEN [threw |-> FALSE, value |-> matchDomain(hostname, domain.s),
          hostname |-> hostname, domain |-> domain]
    ELSE [threw |-> TRUE, value |-> FALSE, hostname |-> hostname, domain |-> domain]

\* the two nested loops of findInstructionSet from entry f, pattern d on;
\* calls are the matchDomain calls made, in order
RECURSIVE FindFrom(_, _, _, _, _)
FindFrom(configs, hostname, f, d, calls) ==
    IF f > Len(configs) THEN [threw |-> FALSE, folder |-> None, calls |-> calls]
    ELSE IF d > Len(configs[f].domains) THEN FindFrom(configs, hostname, f + 1, 1, calls)
    ELSE LET c == matchDomainCall(hostname, configs[f].domains[d])
             calls1 == Append(calls, c)
         IN  IF c.threw THEN [threw |-> TRUE, folder |-> None, calls |-> calls1]
             ELSE IF c.value
                  THEN [threw |-> FALSE, folder |-> Some(configs[f].folder),
                        calls |-> calls1]
                  ELSE FindFrom(configs, hostname, f, d + 1, calls1)

findInstructionSet(configs, hostname) == FindFrom(configs, hostname, 1, 1, <<>>)

-----------------------------------------------------------------------------
(* resolve(url).  c is this.cache, cc this.configCache.  The outcome holds *)
(* what the call leaves and what it did:                                   *)
(*   threw        the promise rejected (nothing is returned or cached)     *)
(*   result       the string | null returned                               *)
(*   cache, configCache   the two fields after the call                    *)
(*   hit          answered by the cache check                              *)
(*   io           the fs calls made, in order                              *)
(*   ins          the array `instructions` at the merge                    *)
(*   calls        the matchDomain calls made                               *)
(*   folder       the string | null findInstructionSet returned            *)

EmptyCache == [k \in {} |-> None]

\* a cache check that never hits
CacheHasNever(c, url) == FALSE

\* this.cache.has(url)
CacheHas(c, url) == url \in DOMAIN c

\* this.cache.set(url, value)
CacheSet(c, url, value) ==
    [k \in DOMAIN c \cup {url} |-> IF k = url THEN value ELSE c[k]]

Outcome(threw, result, hit, c, cc, io, ins, calls, folder) ==
    [threw |-> threw, result |-> result, hit |-> hit, cache |-> c,
     configCache |-> cc, io |-> io, ins |-> ins, calls |-> calls,
     folder |-> folder]

\* the merge, the cache write and the return that end both variants
Finish(c, cc, url, w, io, calls, folder) ==
    LET result == Merge(w.ins)
    IN  Outcome(FALSE, result, FALSE, CacheSet(c, url, result), cc,
                io \o w.io, w.ins, calls, folder)

\* the single variant answering a parse failure with null, as the multi
\* variant does
ResolveSingleParseFailureAbsent(st, c, cc, url) ==
    IF CacheHas(c, url)
    THEN Outcome(FALSE, c[url], TRUE, c, cc, <<>>, <<>>, <<>>, None)
    ELSE LET parsed == ParseURL(url)
         IN  IF parsed.ok
             THEN Finish(c, cc, url, Walk(st, "", parsed.pathname), <<>>, <<>>, None)
             ELSE Outcome(FALSE, None, FALSE, CacheSet(c, url, None), cc,
                          <<>>, <<>>, <<>>, None)

\* src/unnamed/part_000
ResolveSingle(st, c, cc, url) ==
    IF CacheHas(c, url)
    THEN Outcome(FALSE, c[url], TRUE, c, cc, <<>>, <<>>, <<>>, None)
    ELSE LET parsed   == ParseURL(url)
             pathname == IF parsed.ok THEN parsed.pathname
                         ELSE IF StartsWith(url, "/") THEN url
                         ELSE "/" \o url
         IN  Finish(c, cc, url, Walk(st, "", pathname), <<>>, <<>>, None)

\* the multi variant with the configs loaded before the URL is parsed
ResolveMultiConfigsFirst(st, c, cc, url) ==
    IF CacheHas(c, url)
    THEN Outcome(FALSE, c[url], TRUE, c, cc, <<>>, <<>>, <<>>, None)
    ELSE LET parsed == ParseURL(url)
             lc     == loadConfigs(st, cc)
             cc1    == Some(lc.configs)
             fi     == findInstructionSet(lc.configs, parsed.hostname)
         IN  IF ~parsed.ok
             THEN Outcome(FALSE, None, FALSE, CacheSet(c, url, None), cc1,
                          lc.io, <<>>, <<>>, None)
             ELSE IF fi.threw
             THEN Outcome(TRUE, None, FALSE, c, cc1, lc.io, <<>>, fi.calls, None)
             ELSE IF fi.folder = None
             THEN Outcome(FALSE, None, FALSE, CacheSet(c, url, None), cc1,
                          lc.io, <<>>, fi.calls, None)
             ELSE Finish(c, cc1, url, Walk(st, fi.folder[1], parsed.pathname),
                         lc.io, fi.calls, fi.folder)

\* src/unnamed/part_001
ResolveMulti(st, c, cc, url) ==
    IF CacheHas(c, url)
    THEN Outcome(FALSE, c[url], TRUE, c, cc, <<>>, <<>>, <<>>, None)
    ELSE LET parsed == ParseURL(url)
         IN  IF ~parsed.ok
             THEN Outcome(FALSE, None, FALSE, CacheSet(c, url, None), cc,
                          <<>>, <<>>, <<>>, None)
             ELSE LET lc  == loadConfigs(st, cc)
                      cc1 == Some(lc.configs)
                      fi  == findInstructionSet(lc.configs, parsed.hostname)
                  IN  IF fi.threw
                      THEN Outcome(TRUE, None, FALSE, c, cc1, lc.io, <<>>, fi.calls,
                                   None)
                      ELSE IF fi.folder = None
                      THEN Outcome(FALSE, None, FALSE, CacheSet(c, url, None), cc1,
                                   lc.io, <<>>, fi.calls, None)
                      ELSE Finish(c, cc1, url,
                                  Walk(st, fi.folder[1], parsed.pathname),
                                  lc.io, fi.calls, fi.folder)

ResolveCall(v, st, c, cc, url) ==
    IF v = "single" THEN ResolveSingle(st, c, cc, url)
    ELSE ResolveMulti(st, c, cc, url)

\* formatForPrompt(instructions, currentUrl): the template literal
formatForPrompt(instructions, currentUrl) ==
    "## Page Context\n\n**Current URL**: " \o currentUrl \o "\n\n"
        \o instructions \o "\n\n---\n\n## Task"

\* clearCache(): the two fields after the call; the single variant has no
\* configCache field
ClearedCache == EmptyCache

ClearedConfigCache == None

-----------------------------------------------------------------------------
(* The stores and URLs the model runs on.                                  *)

Dir(name) == [name |-> name, isDirectory |-> TRUE]

File(name) == [name |-> name, isDirectory |-> FALSE]

\* single variant: the repository's layout, with a page file next to the
\* seo folder
SingleFull ==
    [present |-> TRUE, listing |-> <<File("_base.md"), Dir("seo"), File("seo.md")>>,
     dirs |-> {"seo", "seo/_dynamic"},
     files |-> ("_base.md" :> "# Root\n") @@ ("seo/_base.md" :> "# SEO\n")
            @@ ("seo/index.md" :> "# SEO index") @@ ("seo.md" :> "# SEO page")
            @@ ("seo/_dynamic/_base.md" :> "# Item")
            @@ ("seo/overview.md" :> "# Overview\n"),
     unreadable |-> {}]

\* single variant after an edit: new root text, seo.md with the text of
\* seo/_base.md, a blank and an unreadable document, no index.md
SingleEdited ==
    [present |-> TRUE, listing |-> <<File("_base.md"), Dir("seo"), File("seo.md")>>,
     dirs |-> {"seo"},
     files |-> ("_base.md" :> "# Root v2") @@ ("seo/_base.md" :> "# SEO")
            @@ ("seo.md" :> "# SEO\n") @@ ("seo/overview.md" :> " \n")
            @@ ("seo/123.md" :> "# Item 123"),
     unreadable |-> {"seo/123.md"}]

\* no instructions directory
Missing ==
    [present |-> FALSE, listing |-> <<>>, dirs |-> {},
     files |-> [p \in {} |-> ""], unreadable |-> {}]

\* multi variant: two sets with overlapping patterns, semrush listed first
MultiFull ==
    [present |-> TRUE,
     listing |-> <<Dir("semrush"), File("README.md"), Dir("other")>>,
     dirs |-> {"semrush", "semrush/seo", "semrush/seo/_dynamic", "other"},
     files |-> ("semrush/_config.json" :> CfgBoth) @@ ("other/_config.json" :> CfgWildcard)
            @@ ("README.md" :> "readme")
            @@ ("semrush/_base.md" :> "# Root\n") @@ ("semrush/seo/_base.md" :> "# SEO\n")
            @@ ("semrush/seo/index.md" :> "# SEO index") @@ ("semrush/seo.md" :> "# SEO page")
            @@ ("semrush/seo/_dynamic/_base.md" :> "# Item")
            @@ ("semrush/seo/overview.md" :> "# Overview\n")
            @@ ("other/_base.md" :> "# Other"),
     unreadable |-> {}]

\* multi variant after an edit: other listed first, new texts, semrush/seo.md
\* with the text of semrush/seo/_base.md
MultiEdited ==
    [present |-> TRUE,
     listing |-> <<Dir("other"), Dir("semrush")>>,
     dirs |-> {"semrush", "semrush/seo", "other", "other/seo"},
     files |-> ("semrush/_config.json" :> CfgBoth) @@ ("other/_config.json" :> CfgWildcard)
            @@ ("semrush/_base.md" :> "# Root v2") @@ ("semrush/seo/_base.md" :> "# SEO")
            @@ ("semrush/seo.md" :> "# SEO\n")
            @@ ("other/_base.md" :> "# Other v2") @@ ("other/seo/overview.md" :> " \n"),
     unreadable |-> {}]

\* multi variant with malformed configs: invalid JSON, no domains, domains
\* that is a string, and a domains list with a number in it
MultiMalformed ==
    [present |-> TRUE,
     listing |-> <<Dir("bare"), Dir("truncated"), Dir("empty"), Dir("semrush"),
                   Dir("string"), Dir("numbers")>>,
     dirs |-> {"truncated", "empty", "semrush", "string", "numbers", "bare"},
     files |-> ("truncated/_config.json" :> CfgTruncated) @@ ("empty/_config.json" :> CfgEmpty)
            @@ ("semrush/_config.json" :> CfgOrg) @@ ("string/_config.json" :> CfgString)
            @@ ("numbers/_config.json" :> CfgNumber)
            @@ ("semrush/_base.md" :> "# Org") @@ ("numbers/_base.md" :> "# Numbers"),
     unreadable |-> {}]

Variants == {"single", "multi"}

StoresOf(v) ==
    IF v = "single" THEN {SingleFull, SingleEdited, Missing}
    ELSE {MultiFull, MultiEdited, MultiMalformed, Missing}

URLs ==
    {"https://example.com/seo",
     "https://a.example.com/seo/123",
     "https://example.com/_base",
     "https://a.b.example.com/seo/overview",
     "https://notexample.com/seo",
     "https://unrelated.org/",
     "about:blank",
     "seo/overview"}

\* the most URLs the model lets the resolution cache hold
MaxCache == 2

-----------------------------------------------------------------------------
(* The state machine.                                                      *)
(*   variant      which of the two classes is running                      *)
(*   store        the instruction store on disk                            *)
(*   cache        this.cache                                               *)
(*   configCache  this.configCache (null throughout in the single variant) *)
(*   last         the last operation and what it did (observation only):   *)
(*       op, url        the operation and its argument                     *)
(*       out            the outcome of a resolve call                      *)
(*       stale          the cache as it was when clearCache last ran, kept *)
(*                      while only the store changes afterwards            *)
(*       changed        the store changed since that clearCache            *)
(*       afterClearChange   the resolve call came right after a clearCache *)
(*                      and the store changes that followed it             *)
(*       staleEntry     for such a call, <<v>> when the cache held v for   *)
(*                      its URL before the clearCache, else <<>>           *)
(*       again          for a resolve call that directly follows a resolve *)
(*                      call of the same URL, <<o>> with o what that call  *)
(*                      threw or returned, else <<>>                       *)

NoOutcome == Outcome(FALSE, None, FALSE, EmptyCache, None, <<>>, <<>>, <<>>, None)

Observed(op, url, out, stale, changed, afterClearChange, staleEntry, again) ==
    [op |-> op, url |-> url, out |-> out, stale |-> stale, changed |-> changed,
     afterClearChange |-> afterClearChange, staleEntry |-> staleEntry,
     again |-> again]

\* process.env.BROWSER_CONTEXT_INJECTION !== 'false'; env is the value of
\* the variable, <<>> when it is not set
ContextInjectionEnabled(env) == env # Some("false")

\* what the command-line process holds and what its last command did:
\*   env          BROWSER_CONTEXT_INJECTION as read at start-up
\*   pageUrl      page.url() of the current page
\*   cmd          the last command ("none" before the first)
\*   url          its url argument, <<>> when it has none
\*   stage        the statement that threw ("browser", "goto", "act",
\*                "screenshot"), or "done" when all before the context
\*                step succeeded
\*   urlBefore    page.url() when the command started
\*   called       <<u>> when contextResolver.resolve(u) was called, else <<>>
\*   returned     <<r>> with r the string | null resolve returned, <<>>
\*                when it was not called or rejected
\*   success      result.success
\*   pageContext  result.pageContext, <<>> when the key is not set
CliState(env, pageUrl, cmd, url, stage, urlBefore, called, returned, success, pageContext) ==
    [env |-> env, pageUrl |-> pageUrl, cmd |-> cmd, url |-> url, stage |-> stage,
     urlBefore |-> urlBefore, called |-> called, returned |-> returned,
     success |-> success, pageContext |-> pageContext]

CliIdle(env) ==
    CliState(env, "about:blank", "none", None, "done", "about:blank",
             None, None, FALSE, None)

\* the last isDynamicSegment(segment) call made on its own and the boolean
\* it returned; <<>> before the first
NotClassified == <<>>

\* the resolve calls, one per caller, that were made and not yet taken up:
\*   state     "idle"; "settled", the promise resolve returned is settled
\*             and the caller's await has not run yet; "returned", the
\*             caller has the value
\*   url, threw, result   the argument and what the promise holds
Callers == {1, 2}

Idle == [state |-> "idle", url |-> "", threw |-> FALSE, result |-> None]

NoCalls == [p \in Callers |-> Idle]

Init ==
    /\ variant \in Variants
    /\ store \in StoresOf(variant)
    /\ cache = EmptyCache
    /\ configCache = None
    /\ last = Observed("new", "", NoOutcome, EmptyCache, FALSE, FALSE, None, None)
    /\ cli = CliIdle(None)
    /\ classified = NotClassified
    /\ pending = NoCalls

\* await resolver.resolve(url)
Resolve(url) ==
    /\ CacheHas(cache, url) \/ Cardinality(DOMAIN cache) < MaxCache
    /\ \E out \in {ResolveCall(variant, store, cache, configCache, url)} :
           /\ cache' = out.cache
           /\ configCache' = out.configCache
           /\ last' = Observed("resolve", url, out, EmptyCache, FALSE,
                                last.op = "storeChange" /\ last.changed,
                                IF url \in DOMAIN last.stale
                                THEN <<last.stale[url]>> ELSE <<>>,
                                IF last.op = "resolve" /\ last.url = url
                                THEN <<[threw |-> last.out.threw,
                                        result |-> last.out.result]>>
                                ELSE <<>>)
    /\ UNCHANGED <<variant, store, cli, classified, pending>>

\* a clearCache that also removes the instructions directory
ClearCacheRemovingStore ==
    /\ cache' = ClearedCache
    /\ configCache' = ClearedConfigCache
    /\ store' = [store EXCEPT !.present = FALSE]
    /\ last' = Observed("clearCache", "", NoOutcome, cache, FALSE, FALSE, None, None)
    /\ UNCHANGED <<variant, cli, classified, pending>>

\* resolver.clearCache()
ClearCache ==
    /\ cache' = ClearedCache
    /\ configCache' = ClearedConfigCache
    /\ last' = Observed("clearCache", "", NoOutcome, cache, FALSE, FALSE, None, None)
    /\ UNCHANGED <<variant, store, cli, classified, pending>>

\* resolver.formatForPrompt(instructions, currentUrl) on the text the last
\* resolve call returned; the prompt text is kept as the result observed
FormatForPrompt ==
    /\ last.op = "resolve"
    /\ last.out.result # None
    /\ last' = Observed("formatForPrompt", last.url,
                         [NoOutcome EXCEPT
                             !.result = Some(formatForPrompt(last.out.result[1], last.url))],
                         EmptyCache, FALSE, FALSE, None, None)
    /\ UNCHANGED <<variant, store, cache, configCache, cli, classified, pending>>

\* an author edits the files of the store
StoreChange(st) ==
    /\ st # store
    /\ store' = st
    /\ last' = Observed("storeChange", "", NoOutcome, last.stale,
                         last.op = "clearCache" \/ last.changed, FALSE, None, None)
    /\ UNCHANGED <<variant, cache, configCache, cli, classified, pending>>

Next ==
    \/ \E url \in URLs : Resolve(url)
    \/ ClearCache
    \/ FormatForPrompt
    \/ \E st \in StoresOf(variant) : StoreChange(st)

Spec == Init /\ [][Next]_vars

-----------------------------------------------------------------------------
(* The walker on deeper trees: dynamic folders, literal folders named like *)
(* an id, page files next to folders.  A tree is a store of the single     *)
(* variant; the multi variant runs on the same tree as the one instruction *)
(* set `semrush`.                                                          *)

\* `_dynamic`, `*` and a literal `123` side by side under seo, a settings
\* folder below `_dynamic`, and a settings page file next to it and below
\* the literal `123`
WalkDeep ==
    [present |-> TRUE, listing |-> <<File("_base.md"), Dir("seo"), File("seo.md")>>,
     dirs |-> {"seo", "seo/_dynamic", "seo/*", "seo/123", "seo/_dynamic/settings"},
     files |-> ("_base.md" :> "# Root\n") @@ ("seo/_base.md" :> "# SEO\n")
            @@ ("seo/index.md" :> "# SEO index") @@ ("seo.md" :> "# SEO page")
            @@ ("seo/_dynamic/_base.md" :> "# Item")
            @@ ("seo/_dynamic/index.md" :> "# Item index")
            @@ ("seo/*/_base.md" :> "# Star")
            @@ ("seo/123/_base.md" :> "# Literal")
            @@ ("seo/123.md" :> "# Item page")
            @@ ("seo/_dynamic/settings/_base.md" :> "# Settings")
            @@ ("seo/_dynamic/settings/index.md" :> "# Settings index")
            @@ ("seo/_dynamic/settings.md" :> "# Settings page of any item")
            @@ ("seo/123/settings.md" :> "# Settings page of 123"),
     unreadable |-> {}]

\* `*` and a literal `123` under seo, no `_dynamic`
WalkStar ==
    [present |-> TRUE, listing |-> <<File("_base.md"), Dir("seo")>>,
     dirs |-> {"seo", "seo/*", "seo/123", "seo/*/settings"},
     files |-> ("_base.md" :> "# Root\n") @@ ("seo/_base.md" :> "# SEO\n")
            @@ ("seo/*/_base.md" :> "# Star") @@ ("seo/*/index.md" :> "# Star index")
            @@ ("seo/123/_base.md" :> "# Literal")
            @@ ("seo/*/settings.md" :> "# Settings page of any item"),
     unreadable |-> {}]

\* only a literal `123` under seo
WalkLiteralOnly ==
    [present |-> TRUE, listing |-> <<File("_base.md"), Dir("seo")>>,
     dirs |-> {"seo", "seo/123", "seo/123/settings"},
     files |-> ("_base.md" :> "# Root\n") @@ ("seo/_base.md" :> "# SEO\n")
            @@ ("seo/123/_base.md" :> "# Literal")
            @@ ("seo/123/index.md" :> "# Literal index")
            @@ ("seo/123/settings/_base.md" :> "# Settings")
            @@ ("seo/123/settings.md" :> "# Settings page of 123"),
     unreadable |-> {}]

\* root and seo base documents, and two page files under seo
WalkFlat ==
    [present |-> TRUE, listing |-> <<File("_base.md"), Dir("seo")>>,
     dirs |-> {"seo"},
     files |-> ("_base.md" :> "# Root\n") @@ ("seo/_base.md" :> "# SEO\n")
            @@ ("seo/overview.md" :> "# Overview\n")
            @@ ("seo/dashboard.md" :> "# Dashboard"),
     unreadable |-> {}]

\* a regular file named `settings` (no directory) below `_dynamic`, and the
\* page file settings.md next to it
WalkFileNamedSettings ==
    [present |-> TRUE, listing |-> <<File("_base.md"), Dir("seo")>>,
     dirs |-> {"seo", "seo/_dynamic"},
     files |-> ("_base.md" :> "# Root\n") @@ ("seo/_base.md" :> "# SEO\n")
            @@ ("seo/_dynamic/_base.md" :> "# Item")
            @@ ("seo/_dynamic/settings" :> "settings of the editor")
            @@ ("seo/_dynamic/settings.md" :> "# Settings page of any item"),
     unreadable |-> {}]

WalkTrees == {WalkDeep, WalkStar, WalkLiteralOnly, WalkFlat, WalkFileNamedSettings}

\* the tree as the instruction set `name` of a multi-variant store
InSet(name, cfg, tree) ==
    LET configPath == name \o "/_config.json"
        prefix     == name \o "/"
    IN  [present |-> TRUE,
         listing |-> <<Dir(name)>>,
         dirs |-> {name} \cup {prefix \o d : d \in tree.dirs},
         files |-> [p \in {configPath} \cup {prefix \o f : f \in DOMAIN tree.files} |->
                       IF p = configPath THEN cfg
                       ELSE tree.files[Slice(p, Len(prefix))]],
         unreadable |-> {prefix \o f : f \in tree.unreadable}]

WalkStoresOf(v) ==
    IF v = "single" THEN WalkTrees
    ELSE {InSet("semrush", CfgBoth, tree) : tree \in WalkTrees}

WalkURLs ==
    {"https://example.com/seo",
     "https://example.com/seo/123",
     "https://example.com/seo/123/settings",
     "https://example.com/seo/123/index",
     "https://example.com/seo/dashboard",
     "https://example.com/seo/dashboard/123",
     "seo/overview",
     "/seo/123/settings"}

InitWalk ==
    /\ variant \in Variants
    /\ store \in WalkStoresOf(variant)
    /\ cache = EmptyCache
    /\ configCache = None
    /\ last = Observed("new", "", NoOutcome, EmptyCache, FALSE, FALSE, None, None)
    /\ cli = CliIdle(None)
    /\ classified = NotClassified
    /\ pending = NoCalls

NextWalk ==
    \/ \E url \in WalkURLs : Resolve(url)
    \/ ClearCache
    \/ FormatForPrompt
    \/ \E st \in WalkStoresOf(variant) : StoreChange(st)

SpecWalk == InitWalk /\ [][NextWalk]_vars

-----------------------------------------------------------------------------
(* Documents that cannot be read or hold no text, and paths written with   *)
(* trailing and repeated slashes.  The store does not change while the     *)
(* resolver runs.                                                          *)

\* documents whose read throws between documents that can be read
WalkUnreadable ==
    [present |-> TRUE, listing |-> <<File("_base.md"), Dir("seo")>>,
     dirs |-> {"seo", "seo/_dynamic"},
     files |-> ("_base.md" :> "# Root\n") @@ ("seo/_base.md" :> "# SEO\n")
            @@ ("seo/index.md" :> "# SEO index")
            @@ ("seo/_dynamic/_base.md" :> "# Item")
            @@ ("seo/_dynamic/index.md" :> "# Item index")
            @@ ("seo/123.md" :> "# Item page")
            @@ ("seo/overview.md" :> "# Overview\n"),
     unreadable |-> {"seo/_base.md", "seo/_dynamic/index.md", "seo/overview.md"}]

\* empty and whitespace-only documents between documents with text
WalkBlank ==
    [present |-> TRUE, listing |-> <<File("_base.md"), Dir("seo")>>,
     dirs |-> {"seo", "seo/_dynamic"},
     files |-> ("_base.md" :> "# Root\n") @@ ("seo/_base.md" :> "")
            @@ ("seo/index.md" :> "\n# SEO index\n\n")
            @@ ("seo/_dynamic/_base.md" :> " \n\t ")
            @@ ("seo/_dynamic/index.md" :> "\n\n")
            @@ ("seo/123.md" :> "# Item page")
            @@ ("seo/overview.md" :> "   "),
     unreadable |-> {}]

\* nothing but empty and whitespace-only documents
WalkAllBlank ==
    [present |-> TRUE, listing |-> <<File("_base.md"), Dir("seo"), File("seo.md")>>,
     dirs |-> {"seo"},
     files |-> ("_base.md" :> "\n") @@ ("seo/_base.md" :> "")
            @@ ("seo/index.md" :> "  ") @@ ("seo.md" :> "\t\r\n")
            @@ ("seo/overview.md" :> " "),
     unreadable |-> {}]

PathTrees == {WalkDeep, WalkUnreadable, WalkBlank, WalkAllBlank}

\* the single-variant store with the files of the plugin root next to
\* instructionsDir
SingleInPluginRoot ==
    [present |-> TRUE, listing |-> <<File("_base.md"), Dir("seo")>>,
     dirs |-> {"seo", "../src"},
     files |-> ("_base.md" :> "# Root\n") @@ ("seo/_base.md" :> "# SEO\n")
            @@ ("../README.md" :> "# Plugin readme\n")
            @@ ("../src/_base.md" :> "# Sources")
            @@ ("../package.json" :> "{}"),
     unreadable |-> {}]

PathStoresOf(v) ==
    IF v = "single" THEN PathTrees \cup {SingleInPluginRoot}
    ELSE {InSet("semrush", CfgBoth, tree) : tree \in PathTrees}

PathURLs ==
    {"https://example.com/seo",
     "https://example.com/seo/",
     "https://example.com/seo/123",
     "https://example.com//seo//123",
     "https://example.com/seo/overview",
     "https://example.com/",
     "https://example.com",
     "seo//overview/",
     "../README",
     "seo/../../src/README"}

InitPaths ==
    /\ variant \in Variants
    /\ store \in PathStoresOf(variant)
    /\ cache = EmptyCache
    /\ configCache = None
    /\ last = Observed("new", "", NoOutcome, EmptyCache, FALSE, FALSE, None, None)
    /\ cli = CliIdle(None)
    /\ classified = NotClassified
    /\ pending = NoCalls

NextPaths ==
    \/ \E url \in PathURLs : Resolve(url)
    \/ ClearCache
    \/ FormatForPrompt

SpecPaths == InitPaths /\ [][NextPaths]_vars

-----------------------------------------------------------------------------
(* Several callers of one resolver on one event loop.  resolve is an async *)
(* function without an await: a call runs its whole body, cache lookup,    *)
(* reads and cache write, before it returns its promise, already settled;  *)
(* what can interleave with other calls and with clearCache is the         *)
(* caller's continuation after `await`.  The store does not change.        *)

ConcStoresOf(v) ==
    IF v = "single" THEN {SingleFull, SingleEdited} ELSE {MultiFull, MultiMalformed}

ConcURLs ==
    {"https://example.com/seo",
     "https://a.example.com/seo/123",
     "https://unrelated.org/",
     "seo/overview"}

InitConc ==
    /\ variant \in Variants
    /\ store \in ConcStoresOf(variant)
    /\ cache = EmptyCache
    /\ configCache = None
    /\ last = Observed("new", "", NoOutcome, EmptyCache, FALSE, FALSE, None, None)
    /\ cli = CliIdle(None)
    /\ classified = NotClassified
    /\ pending = NoCalls

\* caller p evaluates resolver.resolve(url): the body runs to its end and
\* the promise it returns is settled
CallResolve(p, url) ==
    /\ pending[p].state # "settled"
    /\ CacheHas(cache, url) \/ Cardinality(DOMAIN cache) < MaxCache
    /\ \E out \in {ResolveCall(variant, store, cache, configCache, url)} :
           /\ cache' = out.cache
           /\ configCache' = out.configCache
           /\ last' = Observed("resolve", url, out, EmptyCache, FALSE, FALSE, None,
                                IF last.op = "resolve" /\ last.url = url
                                THEN <<[threw |-> last.out.threw,
                                        result |-> last.out.result]>>
                                ELSE <<>>)
           /\ pending' = [pending EXCEPT ![p] =
                             [state |-> "settled", url |-> url,
                              threw |-> out.threw, result |-> out.result]]
    /\ UNCHANGED <<variant, store, cli, classified>>

\* a continuation that stores the value of the promise in the cache, as a
\* resolve suspended before its cache write would
AwaitWritingCache(p) ==
    /\ pending[p].state = "settled"
    /\ pending' = [pending EXCEPT ![p].state = "returned"]
    /\ cache' = IF pending[p].threw THEN cache
                ELSE CacheSet(cache, pending[p].url, pending[p].result)
    /\ UNCHANGED <<variant, store, configCache, last, cli, classified>>

\* the continuation of `await resolver.resolve(url)` in caller p: it takes
\* the value (or the rejection) of the promise
Await(p) ==
    /\ pending[p].state = "settled"
    /\ pending' = [pending EXCEPT ![p].state = "returned"]
    /\ UNCHANGED <<variant, store, cache, configCache, last, cli, classified>>

NextConc ==
    \/ \E p \in Callers, url \in ConcURLs : CallResolve(p, url)
    \/ \E p \in Callers : Await(p)
    \/ ClearCache

SpecConc == InitConc /\ [][NextConc]_vars

-----------------------------------------------------------------------------
(* isDynamicSegment on its own: segments built from repeated blocks of     *)
(* digits, hex letters of both cases, hyphens and other characters, of     *)
(* every length up to MaxSegmentLen, so that the lengths 8, 24 and 36 and  *)
(* their neighbours occur.                                                 *)

MaxSegmentLen == 37

RECURSIVE Repeat(_, _)
Repeat(block, n) == IF n = 0 THEN "" ELSE block \o Repeat(block, n - 1)

Blocks == {"7", "a", "F", "-", "g", "0-", "aB", "3e", "aB-"}

Tails == {"", "0", "b", "E", "-", "z", "G", ".", " ", "\n"}

Segments ==
    {s \in {Repeat(b, n) \o tail : b \in Blocks, n \in 0..MaxSegmentLen, tail \in Tails} :
        Len(s) <= MaxSegmentLen}

\* this.isDynamicSegment(segment); a run classifies one segment, any number
\* of times
IsDynamicSegment(segment) ==
    /\ IF classified = NotClassified THEN TRUE ELSE classified[1].segment = segment
    /\ classified' = <<[segment |-> segment, result |-> isDynamicSegment(segment)]>>
    /\ UNCHANGED <<variant, store, cache, configCache, last, cli, pending>>

InitDynamic ==
    /\ variant \in Variants
    /\ store = IF variant = "single" THEN SingleFull ELSE MultiFull
    /\ cache = EmptyCache
    /\ configCache = None
    /\ last = Observed("new", "", NoOutcome, EmptyCache, FALSE, FALSE, None, None)
    /\ cli = CliIdle(None)
    /\ classified = NotClassified
    /\ pending = NoCalls

NextDynamic == \E segment \in Segments : IsDynamicSegment(segment)

SpecDynamic == InitDynamic /\ [][NextDynamic]_vars

-----------------------------------------------------------------------------
(* The call site: the commands navigate, act and newTab of src/src/cli.ts *)
(* around contextResolver.resolve.  A command runs inside try/catch: a     *)
(* statement that throws ends it with success: false.  The page, the       *)
(* browser and the screenshot are environment: where page.url() ends up    *)
(* and which statement throws are inputs of the action.                    *)

\* const context = await contextResolver.resolve(u);
\* if (context) { result.pageContext = context; }  return result;
\* a rejection of resolve is caught like any other throw
ResolveContext(cmd, url, u, pageUrl) ==
    /\ CacheHas(cache, u) \/ Cardinality(DOMAIN cache) < MaxCache
    /\ \E out \in {ResolveCall(variant, store, cache, configCache, u)} :
           /\ cache' = out.cache
           /\ configCache' = out.configCache
           /\ cli' = CliState(cli.env, pageUrl, cmd, url, "done", cli.pageUrl, Some(u),
                              IF out.threw THEN None ELSE Some(out.result),
                              ~out.threw,
                              IF ~out.threw /\ Truthy(out.result) THEN out.result ELSE None)

\* the command ends without a call of resolve: a statement before the
\* context step threw, or the condition of the context step was false
NoContext(cmd, url, stage, pageUrl) ==
    /\ cli' = CliState(cli.env, pageUrl, cmd, url, stage, cli.pageUrl,
                       None, None, stage = "done", None)
    /\ UNCHANGED <<cache, configCache>>

\* navigate(url); finalUrl is page.url() after page.goto(url)
Navigate(url, finalUrl, stage) ==
    /\ IF stage = "browser"
       THEN NoContext("navigate", Some(url), stage, cli.pageUrl)
       ELSE IF stage # "done"
       THEN NoContext("navigate", Some(url), stage, finalUrl)
       ELSE IF ContextInjectionEnabled(cli.env)
       THEN ResolveContext("navigate", Some(url), finalUrl, finalUrl)
       ELSE NoContext("navigate", Some(url), stage, finalUrl)
    /\ UNCHANGED <<variant, store, last, classified, pending>>

\* an act that resolves whether or not the action navigated
ActAlwaysResolving(urlAfter, stage) ==
    /\ IF stage = "browser"
       THEN NoContext("act", None, stage, cli.pageUrl)
       ELSE IF stage # "done"
       THEN NoContext("act", None, stage, urlAfter)
       ELSE IF ContextInjectionEnabled(cli.env)
       THEN ResolveContext("act", None, urlAfter, urlAfter)
       ELSE NoContext("act", None, stage, urlAfter)
    /\ UNCHANGED <<variant, store, last, classified, pending>>

\* act(action); urlAfter is page.url() after page.act(action)
Act(urlAfter, stage) ==
    /\ LET urlBefore == cli.pageUrl
           navigated == urlAfter # urlBefore
       IN  IF stage = "browser"
           THEN NoContext("act", None, stage, cli.pageUrl)
           ELSE IF stage # "done"
           THEN NoContext("act", None, stage, urlAfter)
           ELSE IF navigated /\ ContextInjectionEnabled(cli.env)
           THEN ResolveContext("act", None, urlAfter, urlAfter)
           ELSE NoContext("act", None, stage, urlAfter)
    /\ UNCHANGED <<variant, store, last, classified, pending>>

\* newTab(url?); finalUrl is the new tab's page.url(): about:blank without
\* url; resolve is given url itself
NewTab(url, finalUrl, stage) ==
    /\ url = None => finalUrl = "about:blank" /\ stage # "goto"
    /\ IF stage = "browser"
       THEN NoContext("newTab", url, stage, cli.pageUrl)
       ELSE IF stage # "done"
       THEN NoContext("newTab", url, stage, finalUrl)
       ELSE IF url # None /\ ContextInjectionEnabled(cli.env)
       THEN ResolveContext("newTab", url, url[1], finalUrl)
       ELSE NoContext("newTab", url, stage, finalUrl)
    /\ UNCHANGED <<variant, store, last, classified, pending>>

\* values of BROWSER_CONTEXT_INJECTION: not set, "false", "0"
Envs == {None, Some("false"), Some("0")}

CliURLs == {"https://example.com/seo", "https://unrelated.org/", "about:blank"}

CliStoresOf(v) == IF v = "single" THEN {SingleFull} ELSE {MultiFull, MultiMalformed}

InitCli ==
    /\ variant \in Variants
    /\ store \in CliStoresOf(variant)
    /\ cache = EmptyCache
    /\ configCache = None
    /\ last = Observed("new", "", NoOutcome, EmptyCache, FALSE, FALSE, None, None)
    /\ cli \in {CliIdle(env) : env \in Envs}
    /\ classified = NotClassified
    /\ pending = NoCalls

NextCli ==
    \/ \E url, finalUrl \in CliURLs :
           \E stage \in {"browser", "goto", "screenshot", "done"} :
               Navigate(url, finalUrl, stage)
    \/ \E urlAfter \in CliURLs :
           \E stage \in {"browser", "act", "screenshot", "done"} :
               Act(urlAfter, stage)
    \/ \E url \in {None} \cup {Some(u) : u \in CliURLs} :
           \E finalUrl \in CliURLs :
               \E stage \in {"browser", "goto", "screenshot", "done"} :
                   NewTab(url, finalUrl, stage)

SpecCli == InitCli /\ [][NextCli]_vars

-----------------------------------------------------------------------------
(* Properties.                                                             *)

\* the last operation was a resolve call that missed the cache
Missed == last.op = "resolve" /\ ~last.out.hit

\* the last operation was a resolve call of the multi variant that got as
\* far as findInstructionSet
Matched == variant = "multi" /\ Missed /\ ParseURL(last.url).ok

\* what resolve gives on the store as it is now, starting from empty caches
FreshOutcome(url) == ResolveCall(variant, store, EmptyCache, None, url)

\* C1: two consecutive resolve(u) calls return the identical result (the
\* same text, or absent both times), and the second one is answered from
\* the resolution cache without any file-system access.
C1_SecondCallFromCache ==
    (last.op = "resolve" /\ last.again # None) =>
        /\ ~last.again[1].threw
        /\ ~last.out.threw
        /\ last.out.result = last.again[1].result
        /\ last.out.hit
        /\ last.out.io = <<>>

\* C2: between two clearCache calls the resolution cache only grows and its
\* entries never change: every step other than clearCache keeps every entry
\* with its value, and a resolve(u) of a cached u returns the cached value.
C2_EntriesImmutable ==
    [][ \/ last'.op = "clearCache"
        \/ /\ \A u \in DOMAIN cache : u \in DOMAIN cache' /\ cache'[u] = cache[u]
           /\ (last'.op = "resolve" /\ last'.url \in DOMAIN cache) =>
                  (~last'.out.threw /\ last'.out.result = cache[last'.url]) ]_vars

\* C2 witness: a resolve call answered with a cached value that differs
\* from what the store on disk gives now.
C2_Witness ==
    /\ last.op = "resolve"
    /\ last.out.hit
    /\ ~FreshOutcome(last.url).threw
    /\ last.out.result # FreshOutcome(last.url).result

\* C3: clearCache empties the resolution cache and resets the config cache,
\* and the resolve(u) of a previously cached u that follows a clearCache and
\* a change of the store re-reads configs and documents and returns the
\* content of the store as it is then.
C3_FreshAfterClear ==
    /\ last.op = "clearCache" => (cache = EmptyCache /\ configCache = None)
    /\ (last.op = "resolve" /\ last.afterClearChange /\ last.staleEntry # None) =>
           /\ ~last.out.threw
           /\ ~last.out.hit
           /\ last.out.result = FreshOutcome(last.url).result
           /\ last.out.io = FreshOutcome(last.url).io

\* C4: resolve settles with text or absent for every input and every store
\* content; it never throws or rejects.
C4_NeverThrows == last.op = "resolve" => ~last.out.threw

\* C5: in the output of one resolution no document (a file identified by
\* its store-relative path) contributes its text more than once.
C5_NoDocumentTwice ==
    last.op = "resolve" =>
        \A i, j \in 1..Len(last.out.ins) :
            i # j => last.out.ins[i].path # last.out.ins[j].path

\* the place of a document class in the order of the resolved text; the
\* <segment>.md of the loop and of step 3 are the sibling file
Rank(cls) ==
    CASE cls = "root"  -> 0
      [] cls = "base"  -> 1
      [] cls = "index" -> 2
      [] cls = "page"  -> 3
      [] cls = "exact" -> 3

\* the directory of a _base.md path, with its trailing slash ("" for the
\* store root)
BaseDir(path) == SubSeq(path, 1, Len(path) - Len("_base.md"))

\* C6: the resolved text lists the root base document first, then the
\* _base.md of each matched folder from the outermost to the leaf, then the
\* leaf's index.md, then the sibling file <lastSegment>.md; no document of a
\* later class precedes one of an earlier class, and the text is the
\* documents joined in that order.
C6_DocumentOrder ==
    (Missed /\ ~last.out.threw) =>
        LET ins == last.out.ins
        IN  /\ \A i, j \in 1..Len(ins) :
                   i < j => /\ Rank(ins[i].cls) <= Rank(ins[j].cls)
                            /\ ins[j].cls # "root"
                            /\ (ins[i].cls = "base" /\ ins[j].cls = "base") =>
                                   /\ Len(ins[i].path) < Len(ins[j].path)
                                   /\ StartsWith(ins[j].path, BaseDir(ins[i].path))
            /\ \A i \in 1..Len(ins) : ins[i].cls = "root" => i = 1
            /\ Len(ins) > 0 => last.out.result = Some(JoinWith(Texts(ins), Separator))

\* C6 witness: a resolution that holds a document of each of the four
\* classes.
C6_Witness ==
    /\ Missed
    /\ Len(last.out.ins) = 4
    /\ [i \in 1..4 |-> last.out.ins[i].cls] = <<"root", "base", "index", "exact">>

\* the segments and the base path of the last resolution
LastSegments ==
    LET parsed == ParseURL(last.url)
    IN  SplitSegments(NormalizePath(
            IF parsed.ok THEN parsed.pathname
            ELSE IF StartsWith(last.url, "/") THEN last.url ELSE "/" \o last.url))

LastBasePath == IF last.out.folder = None THEN "" ELSE last.out.folder[1]

\* C7: the step-3 sibling file is appended only if its trimmed text equals
\* no document already in the list; when the loop's last-segment file
\* attempt already loaded that same file, the file is in the result once.
C7_SiblingOnce ==
    (Missed /\ ~last.out.threw) =>
        LET ins == last.out.ins
        IN  /\ \A j \in 1..Len(ins) :
                   ins[j].cls = "exact" =>
                       \A i \in 1..(j - 1) : ins[i].text # ins[j].text
            /\ \A j \in 1..Len(ins) :
                   (ins[j].cls = "page"
                        /\ ins[j].path = ExactPath(LastBasePath, LastSegments)) =>
                       Cardinality({i \in 1..Len(ins) : ins[i].path = ins[j].path}) = 1

\* hostname = x \o tail for some string x
HasTail(hostname, tail) ==
    \E k \in 0..Len(hostname) : hostname = SubSeq(hostname, 1, k) \o tail

\* the match relation of the domain matcher, stated with concatenation:
\* the pattern itself, or for a pattern "*." \o rest any x \o "." \o rest
\* and rest itself
DomainMatches(hostname, pattern) ==
    \/ hostname = pattern
    \/ LET rest == SubSeq(pattern, 3, Len(pattern))
       IN  /\ pattern = "*." \o rest
           /\ (HasTail(hostname, "." \o rest) \/ hostname = rest)

\* C8: matchDomain(hostname, pattern) is true exactly when hostname equals
\* pattern, or pattern starts with "*." and hostname ends with the dot plus
\* suffix or equals the suffix; *.example.com matches example.com,
\* a.example.com and a.b.example.com and not notexample.com.
C8_MatchDomain ==
    /\ \A i \in 1..Len(last.out.calls) :
           LET c == last.out.calls[i]
           IN  c.domain.str => (c.value <=> DomainMatches(c.hostname, c.domain.s))
    /\ Matched =>
           /\ matchDomain("example.com", "*.example.com")
           /\ matchDomain("a.example.com", "*.example.com")
           /\ matchDomain("a.b.example.com", "*.example.com")
           /\ ~matchDomain("notexample.com", "*.example.com")

\* C8 witness: a resolve call in which *.example.com was matched against
\* the bare example.com and found to match.
C8_Witness ==
    /\ Matched
    /\ \E i \in 1..Len(last.out.calls) :
           /\ last.out.calls[i].hostname = "example.com"
           /\ last.out.calls[i].domain = Str("*.example.com")
           /\ last.out.calls[i].value

\* the registered sets that have a pattern matching the hostname, by their
\* place in the config Map
MatchingSets(configs, hostname) ==
    {f \in 1..Len(configs) :
        \E d \in 1..Len(configs[f].domains) :
            /\ configs[f].domains[d].str
            /\ DomainMatches(hostname, configs[f].domains[d].s)}

Min(S) == CHOOSE x \in S : \A y \in S : x <= y

\* C9: findInstructionSet returns the first registered set, in insertion
\* order, that has any pattern matching the hostname, and absent only when
\* no pattern of any set matches.
C9_FirstMatchingSet ==
    Matched =>
        LET configs == last.out.configCache[1]
            M == MatchingSets(configs, ParseURL(last.url).hostname)
        IN  /\ ~last.out.threw
            /\ last.out.folder = IF M = {} THEN None ELSE Some(configs[Min(M)].folder)

\* C10: when no registered instruction set has a pattern matching the
\* hostname, resolve returns absent without reading any instruction
\* document and stores absent in the resolution cache under the raw URL.
C10_NoMatchAbsent ==
    (Matched /\ MatchingSets(last.out.configCache[1],
                             ParseURL(last.url).hostname) = {}) =>
        /\ ~last.out.threw
        /\ last.out.result = None
        /\ CacheHas(cache, last.url) /\ cache[last.url] = None
        /\ \A i \in 1..Len(last.out.io) : ~EndsWith(last.out.io[i].path, ".md")

\* what a resolve step of the multi variant does when it attempts no
\* domain matching: absent returned and cached under the raw input, no fs
\* call, no matchDomain call, the config cache left as it was
NoMatchingAttempted ==
    /\ ~last'.out.threw
    /\ last'.out.result = None
    /\ CacheHas(cache', last'.url) /\ cache'[last'.url] = None
    /\ last'.out.io = <<>>
    /\ last'.out.calls = <<>>
    /\ configCache' = configCache

\* a resolve step of the multi variant that misses the cache
MultiMiss == variant = "multi" /\ last'.op = "resolve" /\ ~last'.out.hit

\* C11 (as stated): when the input does not parse as an absolute URL with a
\* hostname, resolve attempts no domain matching (configs are neither loaded
\* nor consulted), returns absent and caches absent under the raw input.
C11_NoHostnameNoMatching ==
    [][ (MultiMiss /\ (~ParseURL(last'.url).ok \/ ParseURL(last'.url).hostname = ""))
            => NoMatchingAttempted ]_vars

\* C11 (amended): when new URL(input) throws, resolve attempts no domain
\* matching (configs are neither loaded nor consulted), returns absent and
\* caches absent under the raw input; an input that parses as a URL without
\* a hostname is matched with the empty hostname like any other URL.
C11_ParseFailureNoMatching ==
    [][ /\ (MultiMiss /\ ~ParseURL(last'.url).ok) => NoMatchingAttempted
        /\ (MultiMiss /\ ParseURL(last'.url).ok /\ ~last'.out.threw) =>
               /\ last'.out.configCache # None
               /\ configCache' = last'.out.configCache ]_vars

\* C11 witness: the multi variant, on a store with registered sets and no
\* configs loaded yet, has resolved an input that is not a URL.
C11_Witness ==
    /\ variant = "multi"
    /\ Missed
    /\ ~ParseURL(last.url).ok
    /\ store = MultiFull
    /\ configCache = None
    /\ CacheHas(cache, last.url)

\* a top-level directory that carries a usable config: its _config.json is
\* there, can be read, parses, and has a `domains` list
HasDomainsList(st, name) ==
    LET configPath == name \o "/_config.json"
    IN  /\ configPath \in DOMAIN st.files
        /\ configPath \notin st.unreadable
        /\ LET config == JsonParse(st.files[configPath])
           IN  config.ok /\ config.truthy /\ config.isArray

\* the top-level directories with a usable config, in listing order
Registrable(st) ==
    IF st.present
    THEN SelectSeq(st.listing, LAMBDA e : e.isDirectory /\ HasDomainsList(st, e.name))
    ELSE <<>>

\* the last operation was a resolve call that read the configs from the
\* store (the config cache was empty)
ConfigsLoaded ==
    /\ variant = "multi"
    /\ last.op = "resolve"
    /\ Len(last.out.io) > 0
    /\ last.out.io[1] = ProbeExists("")

RECURSIVE PatternCount(_)
PatternCount(configs) ==
    IF configs = <<>> THEN 0
    ELSE Len(Head(configs).domains) + PatternCount(Tail(configs))

\* C13: a top-level directory whose _config.json is missing, is not valid
\* JSON, or does not carry a `domains` list is excluded from domain matching
\* without any error being raised, and it does not stop the configs of the
\* other directories from being loaded and matched: the configs loaded are
\* exactly those of the directories with a usable config, in listing order,
\* whatever lies between them; an error comes only from a pattern of a
\* loaded config; a call that finds no set has tried every loaded pattern.
C13_InvalidConfigSkipped ==
    ConfigsLoaded =>
        LET configs == last.out.configCache[1]
            R == Registrable(store)
        IN  /\ last.out.configCache # None
            /\ Len(configs) = Len(R)
            /\ \A i \in 1..Len(R) :
                   /\ configs[i].folder = R[i].name
                   /\ configs[i].domains =
                          JsonParse(store.files[R[i].name \o "/_config.json"]).domains
            /\ last.out.threw =>
                   /\ last.out.calls # <<>>
                   /\ ~last.out.calls[Len(last.out.calls)].domain.str
            /\ last.out.folder # None =>
                   \E i \in 1..Len(R) : last.out.folder = Some(R[i].name)
            /\ (~last.out.threw /\ last.out.folder = None) =>
                   Len(last.out.calls) = PatternCount(configs)

\* C13 witness: the configs were read from a store whose listing has a
\* directory without config, one with truncated JSON and one without
\* `domains` before the set that the call then matched.
C13_Witness ==
    /\ ConfigsLoaded
    /\ store = MultiMalformed
    /\ ~HasDomainsList(store, store.listing[1].name)
    /\ ~HasDomainsList(store, store.listing[2].name)
    /\ ~HasDomainsList(store, store.listing[3].name)
    /\ last.out.folder = Some(store.listing[4].name)
    /\ last.out.result = Some("# Org")

\* the first position at or after i where sep occurs in s, 0 when none
RECURSIVE IndexOfFrom(_, _, _)
IndexOfFrom(s, sep, i) ==
    IF i + Len(sep) - 1 > Len(s) THEN 0
    ELSE IF SubSeq(s, i, i + Len(sep) - 1) = sep THEN i
    ELSE IndexOfFrom(s, sep, i + 1)

\* the pieces of s between the occurrences of sep, read left to right
RECURSIVE SplitOn(_, _)
SplitOn(s, sep) ==
    LET k == IndexOfFrom(s, sep, 1)
    IN  IF k = 0 THEN <<s>>
        ELSE <<SubSeq(s, 1, k - 1)>> \o SplitOn(SubSeq(s, k + Len(sep), Len(s)), sep)

RECURSIVE TotalLen(_)
TotalLen(texts) == IF texts = <<>> THEN 0 ELSE Len(Head(texts)) + TotalLen(Tail(texts))

\* C14: all documents of a resolution are joined in list order with exactly
\* the separator "\n\n---\n\n" between consecutive documents (cutting the
\* result at the separators gives back the documents, and nothing else was
\* added); when the list is empty resolve returns and caches absent; resolve
\* never returns the empty string.
C14_JoinedOrAbsent ==
    /\ last.op = "resolve" => last.out.result # Some("")
    /\ (Missed /\ ~last.out.threw) =>
           LET ins == last.out.ins
           IN  /\ CacheHas(cache, last.url)
               /\ cache[last.url] = last.out.result
               /\ Len(ins) = 0 => last.out.result = None
               /\ Len(ins) > 0 =>
                      /\ last.out.result # None
                      /\ SplitOn(last.out.result[1], "\n\n---\n\n") = Texts(ins)
                      /\ Len(last.out.result[1]) =
                             TotalLen(Texts(ins)) + 7 * (Len(ins) - 1)

\* C14 witness: a resolution that merged three documents, and the text it
\* returned is cached.
C14_Witness ==
    /\ Missed
    /\ Len(last.out.ins) >= 3
    /\ last.out.result # None
    /\ cache[last.url] = last.out.result

\* the fs calls that only read: existsSync, readFileSync, readdirSync
ReadCalls == {"existsSync", "readFileSync", "readdirSync"}

\* C15: no operation of the resolver (resolve, clearCache, formatForPrompt)
\* creates, modifies or deletes any file or directory of the instruction
\* store: every fs call it makes is one that reads, and the store after the
\* step is the store before it.
C15_StoreReadOnly ==
    [][ last'.op \in {"resolve", "clearCache", "formatForPrompt"} =>
            /\ store' = store
            /\ \A i \in 1..Len(last'.out.io) : last'.out.io[i].call \in ReadCalls ]_vars

\* C15 witness: clearCache has run on a store that is there, after a resolve
\* call that read files of it, and the cache is empty again.
C15_Witness ==
    /\ last.op = "clearCache"
    /\ store.present
    /\ last.stale # EmptyCache
    /\ \E u \in DOMAIN last.stale : last.stale[u] # None
    /\ cache = EmptyCache

\* the path an input that is not a URL stands for
LiteralPath(s) == IF SubSeq(s, 1, 1) = "/" THEN s ELSE "/" \o s

\* C12: single-tenant: when the input s does not parse as a URL, resolve
\* treats s as a literal path (s itself if it starts with "/", otherwise
\* "/" followed by s), walks it like any other path (the documents and the
\* fs calls are those of a URL with that path on the same store), returns
\* and caches the result of that walk, and raises no error.
C12_LiteralPathFallback ==
    (variant = "single" /\ Missed /\ ~ParseURL(last.url).ok) =>
        LET asUrl == ResolveCall("single", store, EmptyCache, None,
                                 "https://example.com" \o LiteralPath(last.url))
        IN  /\ ~last.out.threw
            /\ last.out.ins = asUrl.ins
            /\ last.out.io = asUrl.io
            /\ last.out.result = asUrl.result
            /\ CacheHas(cache, last.url)
            /\ cache[last.url] = last.out.result

\* C12 witness: the single variant has resolved an input without scheme and
\* without leading slash to the root, section and page documents.
C12_Witness ==
    /\ variant = "single"
    /\ Missed
    /\ ~ParseURL(last.url).ok
    /\ SubSeq(last.url, 1, 1) # "/"
    /\ Len(last.out.ins) = 3
    /\ last.out.ins[3].path = "seo/" \o "overview.md"
    /\ cache[last.url] = last.out.result

\* a second C12 case reached: an input with a leading slash
C12_SlashCase ==
    /\ variant = "single"
    /\ Missed
    /\ ~ParseURL(last.url).ok
    /\ SubSeq(last.url, 1, 1) = "/"
    /\ Len(last.out.ins) >= 3

-----------------------------------------------------------------------------
(* The walker's descent, stated on the store alone.                        *)

\* the last operation was a resolve call that ran the walker
Walked ==
    /\ Missed
    /\ ~last.out.threw
    /\ variant = "multi" => last.out.folder # None

\* the directory the walk starts from
WalkBase == IF variant = "single" THEN "" ELSE last.out.folder[1]

\* the path segments of the input of the last call
WalkedSegments ==
    LET parsed == ParseURL(last.url)
    IN  SplitSegments(NormalizePath(IF parsed.ok THEN parsed.pathname
                                    ELSE LiteralPath(last.url)))

Under(dir, name) == IF dir = "" THEN name ELSE dir \o "/" \o name

Exists(st, path) == st.present /\ (path \in st.dirs \/ path \in DOMAIN st.files)

\* the text a file contributes: <<text>> for a readable file whose trimmed
\* text is not empty, <<>> otherwise
Contributes(st, path) ==
    IF /\ Exists(st, path)
       /\ path \in DOMAIN st.files
       /\ path \notin st.unreadable
       /\ Trim(st.files[path]) # ""
    THEN <<Trim(st.files[path])>>
    ELSE <<>>

\* the folder a segment selects below dir: for an id `_dynamic`, else `*`;
\* for any other segment the folder of that name; <<>> when there is none
Selected(st, dir, segment) ==
    IF isDynamicSegment(segment)
    THEN IF Exists(st, Under(dir, "_dynamic")) THEN <<"_dynamic">>
         ELSE IF Exists(st, Under(dir, "*")) THEN <<"*">>
         ELSE <<>>
    ELSE IF Exists(st, Under(dir, segment)) THEN <<segment>> ELSE <<>>

\* the directories the segments select one after the other, starting below
\* dir, up to the first segment that selects none
RECURSIVE Descent(_, _, _)
Descent(st, dir, segments) ==
    IF segments = <<>> THEN <<>>
    ELSE LET m == Selected(st, dir, Head(segments))
         IN  IF m = <<>> THEN <<>>
             ELSE <<Under(dir, m[1])>> \o Descent(st, Under(dir, m[1]), Tail(segments))

\* the documents of the last call that the statement cls pushed
DocsOf(cls) == {i \in 1..Len(last.out.ins) : last.out.ins[i].cls = cls}

CollectedBeforeExact ==
    {last.out.ins[i].text : i \in 1..Len(last.out.ins) \ DocsOf("exact")}

ResultTexts == {last.out.ins[i].text : i \in 1..Len(last.out.ins)}

\* the directory the folder matched by the last segment lies in
MatchedParent(d) == IF Len(d) = 1 THEN WalkBase ELSE d[Len(d) - 1]

\* the directory named by the segments before the last, taken literally
LiteralParent ==
    LET segments == WalkedSegments
    IN  IF Len(segments) = 1 THEN WalkBase
        ELSE Under(WalkBase, JoinWith(SubSeq(segments, 1, Len(segments) - 1), "/"))

\* C18 (as stated): for every URL whose last segment matches a folder, if a
\* .md file named after that last segment exists next to the matched folder
\* with text distinct from the documents already collected, the result
\* contains both the matched folder's documents and that file's text, also
\* when ancestor segments were matched through _dynamic or * folders.
C18_SiblingNextToMatchedFolder ==
    Walked =>
        LET segments == WalkedSegments
            n == Len(segments)
            d == Descent(store, WalkBase, segments)
        IN  (n > 0 /\ Len(d) = n) =>
                LET text == Contributes(store, Under(MatchedParent(d), segments[n] \o ".md"))
                    base == Contributes(store, d[n] \o "/_base.md")
                IN  (text # <<>> /\ text[1] \notin CollectedBeforeExact) =>
                        /\ text[1] \in ResultTexts
                        /\ base # <<>> => base[1] \in ResultTexts

\* C18 (amended): for every URL with at least one segment, step 3 looks up
\* <basePath>/<the segments before the last, taken literally>/<last>.md,
\* whatever the loop found; if that file has text distinct from the
\* documents already collected, the result ends with it, next to the matched
\* folder's documents.  When the last segment matches a folder and an
\* ancestor was matched through _dynamic or *, the literal path is not the
\* path next to the matched folder, and the file next to the matched folder
\* is not looked up.
C18_SiblingAtLiteralPath ==
    Walked =>
        LET segments == WalkedSegments
            n == Len(segments)
            d == Descent(store, WalkBase, segments)
        IN  n > 0 =>
                LET path == Under(LiteralParent, segments[n] \o ".md")
                    text == Contributes(store, path)
                    ins  == last.out.ins
                    io   == last.out.io
                IN  /\ io # <<>>
                    /\ \/ io[Len(io)] = ProbeExists(path)
                       \/ io[Len(io)] = ProbeRead(path)
                    /\ (text # <<>> /\ text[1] \notin CollectedBeforeExact) =>
                           /\ ins # <<>>
                           /\ ins[Len(ins)] = Doc(path, "exact", text[1])
                    /\ (text = <<>> \/ text[1] \in CollectedBeforeExact) =>
                           DocsOf("exact") = {}
                    /\ Len(d) = n =>
                           LET base == Contributes(store, d[n] \o "/_base.md")
                               next == Under(MatchedParent(d), segments[n] \o ".md")
                           IN  /\ base # <<>> => base[1] \in ResultTexts
                               /\ next # path =>
                                      \A k \in 1..Len(io) : io[k].path # next

\* C18 witness: the last segment matched a folder below a `_dynamic`
\* folder, a page file lies next to that folder, and the result ends with
\* the page file of the literal path instead.
C18_Witness ==
    /\ Walked
    /\ Len(WalkedSegments) = 3
    /\ LET d == Descent(store, WalkBase, WalkedSegments)
       IN  /\ Len(d) = 3
           /\ MatchedParent(d) # LiteralParent
           /\ Contributes(store, Under(MatchedParent(d), WalkedSegments[3] \o ".md")) # <<>>
    /\ DocsOf("exact") # {}
    /\ last.out.ins[Len(last.out.ins)].path =
           Under(LiteralParent, WalkedSegments[3] \o ".md")

\* the directory the loop stands in when it looks at segment j, given the
\* directories d selected so far
DirAt(d, j) == IF j = 1 THEN WalkBase ELSE d[j - 1]

\* the positions in the fs calls of the last call where path was probed
ProbesOf(path) ==
    {k \in 1..Len(last.out.io) : last.out.io[k] = ProbeExists(path)}

\* the paths of the documents the statement cls pushed, in order
PathsOf(cls) ==
    LET docs == SelectSeq(last.out.ins, LAMBDA doc : doc.cls = cls)
    IN  [i \in 1..Len(docs) |-> docs[i].path]

\* the _base.md files of the directories d that have text, in order
BasePathsOf(d) ==
    LET withText == SelectSeq(d, LAMBDA dir : Contributes(store, dir \o "/_base.md") # <<>>)
    IN  [i \in 1..Len(withText) |-> withText[i] \o "/_base.md"]

C19_LiteralOnlyCase ==
    /\ Walked
    /\ store \in {WalkLiteralOnly, InSet("semrush", CfgBoth, WalkLiteralOnly)}
    /\ Len(WalkedSegments) = 2
    /\ isDynamicSegment(WalkedSegments[2])
    /\ Len(last.out.ins) = 2

\* a third C19 case reached: `*` selected where there is no `_dynamic`
C19_StarCase ==
    /\ Walked
    /\ \E i \in DocsOf("base") : EndsWith(last.out.ins[i].path, "seo/*/_base.md")

\* the last call's loop stopped at a segment that selected no folder
StoppedEarly ==
    /\ Walked
    /\ Len(Descent(store, WalkBase, WalkedSegments)) < Len(WalkedSegments)

\* the existsSync calls the walker made in the last call (those after the
\* probe of the root _base.md) on paths that are not .md files: the folder
\* probes
FolderProbes ==
    {last.out.io[k].path : k \in {m \in 1..Len(last.out.io) :
        /\ last.out.io[m].call = "existsSync"
        /\ ~EndsWith(last.out.io[m].path, ".md")
        /\ \E r \in ProbesOf(Under(WalkBase, "_base.md")) : r < m}}

\* the candidate folders of segment j below dir
Candidates(dir, segment) ==
    IF isDynamicSegment(segment)
    THEN {Under(dir, "_dynamic"), Under(dir, "*")}
    ELSE {Under(dir, segment)}

\* the loop stopped at segment Len(d) + 1: the folder probes are those of
\* the segments up to it, and <segment>.md is tried in the directory reached
\* exactly when that segment is the last one
LoopStopsAt(d) ==
    LET segments == WalkedSegments
        j   == Len(d) + 1
        dir == DirAt(d, j)
    IN  /\ FolderProbes \subseteq
               UNION {Candidates(DirAt(d, i), segments[i]) : i \in 1..j}
        /\ Candidates(dir, segments[j]) \subseteq FolderProbes
        /\ j < Len(segments) => ProbesOf(Under(dir, segments[j] \o ".md")) = {}
        /\ j = Len(segments) => ProbesOf(Under(dir, segments[j] \o ".md")) # {}
        /\ DocsOf("index") = {}
        /\ PathsOf("base") = BasePathsOf(d)

\* the files named _base.md or index.md among the documents of the result
BaseOrIndexPaths ==
    {last.out.ins[i].path : i \in {k \in 1..Len(last.out.ins) :
        \/ EndsWith(last.out.ins[k].path, "_base.md")
        \/ EndsWith(last.out.ins[k].path, "index.md")}}

\* C20 (as stated): when a segment matches no candidate folder the segment
\* loop stops at that segment: no later segment is classified or probed, no
\* _base.md or index.md of a deeper level is included, and <segment>.md
\* under the current directory is attempted at that level only if the
\* segment is the last one.
C20_NothingDeeperIncluded ==
    StoppedEarly =>
        LET d == Descent(store, WalkBase, WalkedSegments)
        IN  /\ LoopStopsAt(d)
            /\ BaseOrIndexPaths \subseteq
                   {Under(WalkBase, "_base.md")} \cup
                   {d[i] \o "/_base.md" : i \in 1..Len(d)}

\* C20 (amended): when a segment matches no candidate folder the segment
\* loop stops at that segment: the loop classifies and probes no later
\* segment and loads no _base.md or index.md of a deeper level, and
\* <segment>.md under the current directory is attempted at that level only
\* if the segment is the last one; the one document that can still come
\* from a deeper level is the file of step 3,
\* <the segments before the last, taken literally>/<last>.md, whatever its
\* name.  With root and seo base documents only, /seo/dashboard/123 resolves
\* to root base and seo base.
C20_LoopStopsAtUnmatched ==
    StoppedEarly =>
        LET d == Descent(store, WalkBase, WalkedSegments)
            n == Len(WalkedSegments)
        IN  /\ LoopStopsAt(d)
            /\ \A i \in 1..Len(last.out.ins) :
                   LET doc == last.out.ins[i]
                   IN  \/ doc.cls = "root" /\ doc.path = Under(WalkBase, "_base.md")
                       \/ doc.cls = "base" /\ \E k \in 1..Len(d) : doc.path = d[k] \o "/_base.md"
                       \/ /\ doc.cls = "page"
                          /\ Len(d) = n - 1
                          /\ doc.path = Under(DirAt(d, n), WalkedSegments[n] \o ".md")
                       \/ /\ doc.cls = "exact"
                          /\ doc.path = Under(LiteralParent, WalkedSegments[n] \o ".md")
            /\ (EndsWith(last.url, "/seo/dashboard/123")
                    /\ DOMAIN store.files \cap {Under(WalkBase, "seo/dashboard/123.md")} = {}) =>
                   last.out.ins = <<Doc(Under(WalkBase, "_base.md"), "root",
                                        Trim(store.files[Under(WalkBase, "_base.md")])),
                                    Doc(Under(WalkBase, "seo/_base.md"), "base",
                                        Trim(store.files[Under(WalkBase, "seo/_base.md")]))>>

\* C20 witness: /seo/dashboard/123 on a store with root and seo base
\* documents and a file seo/dashboard.md: the loop stopped at `dashboard`,
\* which is not the last segment, and the result is root base and seo base.
C20_Witness ==
    /\ StoppedEarly
    /\ EndsWith(last.url, "/seo/dashboard/123")
    /\ Contributes(store, Under(WalkBase, "seo/dashboard.md")) # <<>>
    /\ last.out.result = Some("# Root" \o Separator \o "# SEO")

-----------------------------------------------------------------------------
(* The call site.                                                          *)

\* the last command got as far as the context step
ReachedContextStep == cli.cmd # "none" /\ cli.stage = "done"

\* C16: at the call site resolve is invoked only when
\* BROWSER_CONTEXT_INJECTION is not set to `false`; when enabled, navigate
\* resolves the page's final URL (after redirects) on every successful
\* navigation, act resolves only when the page URL after the action differs
\* from the URL before it, and pageContext is attached to the command
\* result only when resolve returned a non-absent text.
C16_CallSite ==
    /\ cli.called # None => cli.env # Some("false")
    /\ (cli.cmd = "navigate" /\ ReachedContextStep /\ cli.env # Some("false")) =>
           cli.called = Some(cli.pageUrl)
    /\ (cli.cmd = "navigate" /\ cli.success /\ cli.env # Some("false")) =>
           cli.called = Some(cli.pageUrl)
    /\ cli.cmd = "act" =>
           /\ cli.called # None => cli.pageUrl # cli.urlBefore
           /\ cli.called # None => cli.called = Some(cli.pageUrl)
           /\ (ReachedContextStep /\ cli.env # Some("false")
                   /\ cli.pageUrl # cli.urlBefore) => cli.called # None
    /\ cli.pageContext # None =>
           /\ cli.called # None
           /\ cli.returned # None
           /\ cli.returned[1] # None
           /\ cli.pageContext = cli.returned[1]
           /\ CacheHas(cache, cli.called[1])
           /\ cache[cli.called[1]] = cli.pageContext
    /\ (cli.returned # None /\ cli.returned[1] # None) =>
           cli.pageContext = cli.returned[1]
    /\ cli.called = None => cli.returned = None

\* C16 witness: with the variable not set, an act that changed the page URL
\* has resolved the new URL and attached the text to its result.
C16_Witness ==
    /\ cli.cmd = "act"
    /\ cli.env = None
    /\ cli.pageUrl # cli.urlBefore
    /\ cli.called = Some(cli.pageUrl)
    /\ cli.success
    /\ cli.pageContext # None

\* further C16 cases reached: a redirected navigate that resolved the final
\* URL, a navigate that resolved nothing because the variable is "false",
\* and one whose resolve call returned null
C16_RedirectCase ==
    /\ cli.cmd = "navigate"
    /\ cli.url # Some(cli.pageUrl)
    /\ cli.called = Some(cli.pageUrl)
    /\ cli.pageContext # None

C16_DisabledCase ==
    /\ cli.cmd = "navigate"
    /\ cli.env = Some("false")
    /\ cli.success
    /\ cli.called = None

C16_AbsentCase ==
    /\ cli.cmd = "navigate"
    /\ cli.success
    /\ cli.returned = Some(None)
    /\ cli.pageContext = None

-----------------------------------------------------------------------------
(* The dynamic-segment classifier.                                         *)

\* the characters of s, as a set
CharsOf(s) == {SubSeq(s, i, i) : i \in 1..Len(s)}

DecimalDigits == {"0", "1", "2", "3", "4", "5", "6", "7", "8", "9"}

\* the lower-case form of the letters A to F; any other character is kept
LowerCase(c) ==
    CASE c = "A" -> "a" [] c = "B" -> "b" [] c = "C" -> "c"
      [] c = "D" -> "d" [] c = "E" -> "e" [] c = "F" -> "f"
      [] OTHER -> c

\* a hex digit, in either case
IsHexDigit(c) == LowerCase(c) \in DecimalDigits \cup {"a", "b", "c", "d", "e", "f"}

AllDecimal(s) == Len(s) >= 1 /\ \A c \in CharsOf(s) : c \in DecimalDigits

UuidShaped(s) == Len(s) = 36 /\ \A c \in CharsOf(s) : IsHexDigit(c) \/ c = "-"

HexOfEightOrMore(s) == Len(s) >= 8 /\ \A c \in CharsOf(s) : IsHexDigit(c)

HexOfTwentyFour(s) == Len(s) = 24 /\ \A c \in CharsOf(s) : IsHexDigit(c)

\* C21: isDynamic(segment) is true exactly when the whole segment,
\* case-insensitively, is one or more decimal digits, or 36 characters each
\* a hex digit or a hyphen, or eight or more hex digits, or exactly 24 hex
\* digits, and false otherwise; every segment accepted by rule 4 is accepted
\* by rule 3; the result is a function of the segment alone: the call reads
\* and writes no state of the resolver.
C21_IsDynamic ==
    classified # NotClassified =>
        LET s == classified[1].segment
        IN  /\ classified[1].result \in BOOLEAN
            /\ classified[1].result <=>
                   (AllDecimal(s) \/ UuidShaped(s) \/ HexOfEightOrMore(s)
                        \/ HexOfTwentyFour(s))
            /\ HexOfTwentyFour(s) => HexOfEightOrMore(s)
            /\ cache = EmptyCache
            /\ configCache = None
            /\ last.op = "new"

\* C21 witness: a segment of 36 hex digits and hyphens with upper-case
\* letters, too long or too mixed for the other rules, classified dynamic.
C21_Witness ==
    /\ classified # NotClassified
    /\ classified[1].result
    /\ UuidShaped(classified[1].segment)
    /\ "-" \in CharsOf(classified[1].segment)
    /\ "B" \in CharsOf(classified[1].segment)

\* further C21 cases reached: 24 hex digits, 7 hex digits with a letter
\* (refused), digits followed by a line feed (refused)
C21_TwentyFourCase ==
    /\ classified # NotClassified
    /\ HexOfTwentyFour(classified[1].segment)
    /\ classified[1].result

C21_SevenHexCase ==
    /\ classified # NotClassified
    /\ Len(classified[1].segment) = 7
    /\ \A c \in CharsOf(classified[1].segment) : IsHexDigit(c)
    /\ ~classified[1].result

C21_LineFeedCase ==
    /\ classified # NotClassified
    /\ "\n" \in CharsOf(classified[1].segment)
    /\ "7" \in CharsOf(classified[1].segment)
    /\ ~classified[1].result

-----------------------------------------------------------------------------
(* Folder matching.                                                        *)

\* the folder a segment selects below dir when only directories count
SelectedDirectory(st, dir, segment) ==
    LET isDir(path) == st.present /\ path \in st.dirs
    IN  IF isDynamicSegment(segment)
        THEN IF isDir(Under(dir, "_dynamic")) THEN <<"_dynamic">>
             ELSE IF isDir(Under(dir, "*")) THEN <<"*">>
             ELSE <<>>
        ELSE IF isDir(Under(dir, segment)) THEN <<segment>> ELSE <<>>

RECURSIVE DirectoryDescent(_, _, _)
DirectoryDescent(st, dir, segments) ==
    IF segments = <<>> THEN <<>>
    ELSE LET m == SelectedDirectory(st, dir, Head(segments))
         IN  IF m = <<>> THEN <<>>
             ELSE <<Under(dir, m[1])>>
                      \o DirectoryDescent(st, Under(dir, m[1]), Tail(segments))

\* the paths the loop of the last call took for matched folders: those it
\* probed and then looked into for a _base.md
MatchedFolders ==
    {last.out.io[k].path : k \in {m \in 1..(Len(last.out.io) - 1) :
        /\ last.out.io[m].call = "existsSync"
        /\ last.out.io[m + 1] = ProbeExists(last.out.io[m].path \o "/_base.md")}}

\* C22: at each level a candidate name becomes the matched folder only if it
\* exists as a subdirectory of the current directory (an existing regular
\* file of that name does not count as a folder match), and candidates are
\* tested in list order with the first existing one chosen.
C22_MatchedFolderIsDirectory ==
    Walked =>
        LET d == DirectoryDescent(store, WalkBase, WalkedSegments)
        IN  /\ MatchedFolders \subseteq store.dirs
            /\ MatchedFolders = {d[i] : i \in 1..Len(d)}
            /\ PathsOf("base") = BasePathsOf(d)
            /\ (Len(d) = Len(WalkedSegments) - 1) =>
                   LET page == Contributes(store,
                                   Under(DirAt(d, Len(d) + 1),
                                         WalkedSegments[Len(WalkedSegments)] \o ".md"))
                   IN  page # <<>> => page[1] \in ResultTexts

-----------------------------------------------------------------------------
(* Documents whose read fails.                                             *)

\* the pathname the walker of the last call was given
WalkedPathname ==
    LET parsed == ParseURL(last.url)
    IN  IF parsed.ok THEN parsed.pathname ELSE LiteralPath(last.url)

\* the store with the files in paths deleted
Without(st, paths) ==
    [st EXCEPT !.files = [p \in (DOMAIN st.files) \ paths |-> st.files[p]],
               !.unreadable = st.unreadable \ paths]

\* the documents of the store whose read throws
UnreadableDocuments == {p \in store.unreadable : EndsWith(p, ".md")}

\* the fs calls of the last call without the reads of the files in paths
IoWithoutReadsOf(paths) ==
    LET Keep(e) == ~(e.call = "readFileSync" /\ e.path \in paths)
    IN  SelectSeq(last.out.io, Keep)

IsSuffix(s, whole) ==
    /\ Len(s) <= Len(whole)
    /\ SubSeq(whole, Len(whole) - Len(s) + 1, Len(whole)) = s

\* C23: a document that exists and whose read fails is treated as absent,
\* for that document only: the list of documents, the returned text and the
\* probes of the other documents are those of a store where the file is
\* missing, and the call completes and caches its result.
C23_ReadFailureIsAbsence ==
    Walked =>
        LET ref == Walk(Without(store, UnreadableDocuments), WalkBase, WalkedPathname)
        IN  /\ last.out.ins = ref.ins
            /\ last.out.result = Merge(ref.ins)
            /\ IsSuffix(ref.io, IoWithoutReadsOf(UnreadableDocuments))
            /\ last.url \in DOMAIN cache
            /\ cache[last.url] = last.out.result

\* a read failed, a document probed after it was included, and the result
\* was cached
C23_Witness ==
    /\ Walked
    /\ last.url \in DOMAIN cache
    /\ \E k \in 1..Len(last.out.io) :
           /\ last.out.io[k].call = "readFileSync"
           /\ last.out.io[k].path \in UnreadableDocuments
           /\ \E j \in (k + 1)..Len(last.out.io) :
                  /\ last.out.io[j].call = "readFileSync"
                  /\ \E i \in 1..Len(last.out.ins) :
                         last.out.ins[i].path = last.out.io[j].path

-----------------------------------------------------------------------------
(* The config cache.                                                       *)

\* the fs calls of loadConfigs: the probe and listing of instructionsDir
\* and the probes and reads of the _config.json files
IsConfigScanCall(e) ==
    \/ e.call = "readdirSync"
    \/ e.path = ""
    \/ EndsWith(e.path, "_config.json")

ScannedConfigs(io) == \E i \in 1..Len(io) : IsConfigScanCall(io[i])

\* C24: the store is scanned for _config.json files at most once between
\* clearCache calls: the first resolve that reaches domain matching scans
\* and fills the config cache, a resolve that finds it filled makes no scan
\* call and leaves it as it is, whatever the store holds by then, a
\* resolution-cache hit makes no fs call at all, and only clearCache
\* empties the config cache.
C24_ConfigsScannedOnce ==
    [][ /\ (last' # last /\ last'.op = "resolve") =>
              /\ configCache # None =>
                     /\ configCache' = configCache
                     /\ ~ScannedConfigs(last'.out.io)
              /\ last'.out.hit =>
                     /\ last'.out.io = <<>>
                     /\ configCache' = configCache
              /\ (variant = "multi" /\ ~last'.out.hit /\ ParseURL(last'.url).ok
                      /\ configCache = None) =>
                     /\ configCache' = Some(loadConfigs(store, None).configs)
                     /\ last'.out.io[1] = ProbeExists("")
              /\ ScannedConfigs(last'.out.io) => configCache = None /\ configCache' # None
        /\ (configCache # None /\ configCache' # configCache) =>
              /\ last'.op = "clearCache"
              /\ configCache' = None
      ]_vars

\* a miss of the multi variant matched the hostname against configs loaded
\* before the store changed, which differ from those on disk, without a scan
C24_Witness ==
    /\ Matched
    /\ configCache # None
    /\ configCache # Some(loadConfigs(store, None).configs)
    /\ last.out.configCache = configCache
    /\ ~ScannedConfigs(last.out.io)

-----------------------------------------------------------------------------
(* Several callers.                                                        *)

Called(p) == pending[p].state # "idle"

\* C25: with calls of several callers interleaved on an unchanged store,
\* every call for a URL returns the same result and the cache ends up
\* holding that result for the URL.
C25_SameResultAndCached ==
    /\ \A p \in Callers : Called(p) => ~pending[p].threw
    /\ \A p, q \in Callers :
           (Called(p) /\ Called(q) /\ pending[p].url = pending[q].url) =>
               pending[p].result = pending[q].result
    /\ last.op = "resolve" =>
           /\ last.url \in DOMAIN cache
           /\ cache[last.url] = last.out.result

\* the same for the calls that do not reject
C25_CompletedCallsAgree ==
    /\ \A p, q \in Callers :
           (Called(p) /\ Called(q) /\ pending[p].url = pending[q].url
                /\ ~pending[p].threw) =>
               /\ ~pending[q].threw
               /\ pending[p].result = pending[q].result
    /\ (last.op = "resolve" /\ ~last.out.threw) =>
           /\ last.url \in DOMAIN cache
           /\ cache[last.url] = last.out.result

-----------------------------------------------------------------------------
(* Trailing and repeated slashes.                                          *)

\* the non-empty pieces of path between its slashes
NonEmptyPieces(path) ==
    LET NotEmpty(x) == x # ""
    IN  SelectSeq(SplitOn(path, "/"), NotEmpty)

\* the path written with one slash before each non-empty piece
Canonical(path) ==
    IF NonEmptyPieces(path) = <<>> THEN "/"
    ELSE "/" \o JoinWith(NonEmptyPieces(path), "/")

\* C26: the resolution depends on the path only through its non-empty
\* segments: a path with a trailing slash or with repeated slashes yields the
\* documents, probes and text of the path written without them, cached under
\* the raw input; a path without segments yields the root base document
\* alone, or absent when that document is missing or empty.
C26_OnlyNonEmptySegments ==
    Walked =>
        LET ref  == Walk(store, WalkBase, Canonical(WalkedPathname))
            root == Under(WalkBase, "_base.md")
        IN  /\ last.out.ins = ref.ins
            /\ IsSuffix(ref.io, last.out.io)
            /\ last.out.result = Merge(ref.ins)
            /\ last.url \in DOMAIN cache
            /\ cache[last.url] = last.out.result
            /\ NonEmptyPieces(WalkedPathname) = <<>> =>
                   /\ last.out.result = Contributes(store, root)
                   /\ \A i \in 1..Len(last.out.io) : last.out.io[i].path = root
                          \/ IsConfigScanCall(last.out.io[i])

\* a path with repeated slashes resolved to several documents, cached under
\* the raw input next to the same text under the path without them
C26_Witness ==
    /\ Walked
    /\ last.url = "https://example.com//seo//123"
    /\ Len(last.out.ins) >= 3
    /\ "https://example.com/seo/123" \in DOMAIN cache
    /\ cache["https://example.com/seo/123"] = cache[last.url]

\* a path with a trailing slash
C26_TrailingSlashCase ==
    /\ Walked
    /\ last.url = "https://example.com/seo/"
    /\ Len(last.out.ins) >= 2

\* a path without segments, with and without a root base document
C26_RootCase ==
    /\ Walked
    /\ last.url = "https://example.com"
    /\ Len(last.out.ins) = 1

C26_RootAbsentCase ==
    /\ Walked
    /\ last.url = "https://example.com/"
    /\ last.out.result = None

-----------------------------------------------------------------------------
(* Containment in instructionsDir.                                         *)

\* C27: every file or directory a resolve call probes or reads lies inside
\* the instructions directory, for every input, the non-URL inputs of the
\* single variant with `..` segments included.
C27_ProbesInsideInstructions ==
    last.op = "resolve" =>
        \A i \in 1..Len(last.out.io) : ~IsOutside(last.out.io[i].path)

\* the same for the inputs that new URL() parses
C27_UrlInputsStayInside ==
    (last.op = "resolve" /\ ParseURL(last.url).ok) =>
        \A i \in 1..Len(last.out.io) : ~IsOutside(last.out.io[i].path)

\* a file of the plugin root, outside instructionsDir, was read and
\* returned
C27_ReadOutsideCase ==
    /\ last.op = "resolve"
    /\ last.out.result # None
    /\ \E i \in 1..Len(last.out.ins) : IsOutside(last.out.ins[i].path)

-----------------------------------------------------------------------------
(* Isolation of the instruction sets (multi variant).                      *)

InFolder(folder, path) == StartsWith(path, folder \o "/")

IsConfigPath(path) == EndsWith(path, "/_config.json")

\* the names of the sets of a store other than folder
OtherSets(st, folder) ==
    {st.listing[i].name : i \in {k \in 1..Len(st.listing) :
        st.listing[k].isDirectory /\ st.listing[k].name # folder}}

\* the files of st that are neither a config nor below folder
ForeignFiles(st, folder) ==
    {p \in DOMAIN st.files : ~IsConfigPath(p) /\ ~InFolder(folder, p)}

\* st with every foreign file and every directory inside another set deleted
ForeignDeleted(st, folder) ==
    [Without(st, ForeignFiles(st, folder)) EXCEPT
        !.dirs = {d \in st.dirs : InFolder(folder, d) \/ IndexOfSlash(d, 1) = 0}]

\* st with the text of every foreign file replaced
ForeignRewritten(st, folder) ==
    [st EXCEPT !.files = [p \in DOMAIN st.files |->
                             IF p \in ForeignFiles(st, folder)
                             THEN "# Rewritten" ELSE st.files[p]]]

\* st with the tree of folder copied, with other texts, into every other set
ForeignMirrored(st, folder) ==
    LET rest(p)  == Slice(p, Len(folder))
        own      == {p \in DOMAIN st.files : InFolder(folder, p) /\ ~IsConfigPath(p)}
        ownDirs  == {d \in st.dirs : InFolder(folder, d)}
        copies   == {g \o rest(p) : g \in OtherSets(st, folder), p \in own}
    IN  [st EXCEPT
            !.dirs  = st.dirs \cup {g \o rest(d) : g \in OtherSets(st, folder), d \in ownDirs},
            !.files = [p \in (DOMAIN st.files) \cup copies |->
                          IF p \in copies THEN "# Mirrored" ELSE st.files[p]]]

\* stores that agree with st on every config and on everything below folder
Agreeing(st, folder) ==
    {ForeignDeleted(st, folder), ForeignRewritten(st, folder), ForeignMirrored(st, folder)}

\* what a caller of a new resolver sees of resolve(url) on st
Seen(st, url) ==
    LET out == ResolveCall("multi", st, EmptyCache, None, url)
    IN  [threw |-> out.threw, result |-> out.result, folder |-> out.folder,
         ins |-> out.ins]

-----------------------------------------------------------------------------
(* Empty and whitespace-only documents.                                    *)

\* the documents of the store that hold nothing but whitespace
BlankDocuments ==
    {p \in DOMAIN store.files : EndsWith(p, ".md") /\ AllIn(store.files[p], Whitespace)}

\* C29: a document that is empty or holds only whitespace is handled like a
\* missing file: the documents and the text are those of the store without
\* it, every element of the list is a non-empty trimmed text, the result
\* neither starts nor ends with the separator nor has an empty piece between
\* two separators, and an input whose candidate files are all such documents
\* resolves to absent.
C29_BlankIsMissing ==
    Walked =>
        LET ref == Walk(Without(store, BlankDocuments), WalkBase, WalkedPathname)
            ins == last.out.ins
        IN  /\ ins = ref.ins
            /\ last.out.result = Merge(ref.ins)
            /\ IsSuffix(ref.io, IoWithoutReadsOf(BlankDocuments))
            /\ \A i \in 1..Len(ins) :
                   /\ ins[i].text # ""
                   /\ CharAt(ins[i].text, 1) \notin Whitespace
                   /\ CharAt(ins[i].text, Len(ins[i].text)) \notin Whitespace
            /\ last.out.result # None =>
                   LET pieces == SplitOn(last.out.result[1], Separator)
                   IN  /\ ~StartsWith(last.out.result[1], Separator)
                       /\ ~EndsWith(last.out.result[1], Separator)
                       /\ \A k \in 1..Len(pieces) : pieces[k] # ""
            /\ (\A k \in 1..Len(last.out.io) :
                    last.out.io[k].call = "readFileSync" =>
                        \/ last.out.io[k].path \in BlankDocuments
                        \/ IsConfigPath(last.out.io[k].path)) =>
                   last.out.result = None

\* a whitespace-only document was read and left out, and a document read
\* after it was included
C29_Witness ==
    /\ Walked
    /\ \E k \in 1..Len(last.out.io) :
           /\ last.out.io[k].call = "readFileSync"
           /\ last.out.io[k].path \in BlankDocuments
           /\ store.files[last.out.io[k].path] # ""
           /\ \E j \in (k + 1)..Len(last.out.io) :
                  /\ last.out.io[j].call = "readFileSync"
                  /\ \E i \in 1..Len(last.out.ins) :
                         last.out.ins[i].path = last.out.io[j].path

\* every candidate file of the input was read and was empty or
\* whitespace-only, and the call returned absent
C29_AllBlankCase ==
    /\ Walked
    /\ last.out.result = None
    /\ Cardinality({k \in 1..Len(last.out.io) :
           /\ last.out.io[k].call = "readFileSync"
           /\ last.out.io[k].path \in BlankDocuments}) >= 3

-----------------------------------------------------------------------------
(* resolve runs in one piece.                                              *)

\* caller p made a resolve call in this step
CallStep(p) == pending'[p] # pending[p] /\ pending'[p].state = "settled"

\* the continuation of caller p's await ran in this step
AwaitStep(p) == pending[p].state = "settled" /\ pending'[p].state = "returned"

\* C30: resolve has no suspension point between its cache lookup, its reads
\* and its cache write, so resolve and clearCache never interleave: the
\* cache changes only in a clearCache step, which empties it, or in the step
\* of a resolve call for a URL the cache does not hold, which adds the value
\* computed in that same step from the store and leaves the other entries;
\* the continuation of an await writes nothing, so no value computed before
\* a clearCache is written after it, and between two clears there is at most
\* one cache write per URL.
C30_ResolveRunsInOnePiece ==
    [][ /\ cache' # cache =>
              \/ last'.op = "clearCache" /\ cache' = EmptyCache
              \/ \E p \in Callers :
                     /\ CallStep(p)
                     /\ pending'[p].url \notin DOMAIN cache
                     /\ ~pending'[p].threw
                     /\ pending'[p].result =
                            ResolveCall(variant, store, cache, configCache,
                                        pending'[p].url).result
                     /\ cache' = CacheSet(cache, pending'[p].url, pending'[p].result)
        /\ \A p \in Callers :
               AwaitStep(p) => cache' = cache /\ configCache' = configCache
        /\ \A p \in Callers :
               (CallStep(p) /\ pending'[p].url \in DOMAIN cache) =>
                   /\ cache' = cache
                   /\ pending'[p].result = cache[pending'[p].url]
      ]_vars

\* clearCache ran between a call that wrote the cache and the continuation
\* of its caller, while the other caller holds the value of a call for the
\* same URL
C30_Witness ==
    /\ last.op = "clearCache"
    /\ cache = EmptyCache
    /\ \E p, q \in Callers :
           /\ p # q
           /\ pending[p].state = "settled"
           /\ ~pending[p].threw
           /\ pending[p].url \in DOMAIN last.stale
           /\ pending[q].state = "returned"
           /\ pending[q].url = pending[p].url

====
